---- MODULE Spec2Model ----
(***************************************************************************)
(* The w3af knowledge base (w3af/core/data/kb/knowledge_base.py):          *)
(* BasicKnowledgeBase (append_uniq, append_uniq_group and their filters)   *)
(* and DBKnowledgeBase (lazy setup, append, get, update, observers) as a   *)
(* multi-threaded state machine.  Every thread runs the handlers statement *)
(* by statement; a step is one statement that touches shared state (the    *)
(* initialized flag, an attribute of the store, one SQL statement, the     *)
(* lock).                                                                  *)
(***************************************************************************)
EXTENDS Integers, Sequences, FiniteSets, TLC

\* ------------------------------------------------------------------ bounds
NThreads == 2
MaxCalls == 3

Threads == 1..NThreads

\* ------------------------------------------------------------------ values
\* A value handed to the store.  kind is the dynamic class; uid is the
\* _uniq_id attribute of an Info; hasdc/keys are get_dc() (None, or a
\* container whose keys() is the list keys); grp is the attribute an InfoSet
\* groups by; infos are the members of an InfoSet; sev is the severity of an
\* Info or Vuln (an Info is of severity INFORMATION unless it is given one).
MkInfo(uid, url, token, hasdc, keys, grp) ==
    [kind |-> "Info", uid |-> uid, url |-> url, token |-> token,
     hasdc |-> hasdc, keys |-> keys, grp |-> grp, infos |-> <<>>,
     sev |-> "INFORMATION"]

MkInfoSet(infos) ==
    [kind |-> "InfoSet", uid |-> "", url |-> "", token |-> "",
     hasdc |-> FALSE, keys |-> <<>>, grp |-> "", infos |-> infos, sev |-> ""]

MkRaw(uid) ==
    [kind |-> "Raw", uid |-> uid, url |-> "", token |-> "",
     hasdc |-> FALSE, keys |-> <<>>, grp |-> "", infos |-> <<>>, sev |-> ""]

NoValue ==
    [kind |-> "NoValue", uid |-> "", url |-> "", token |-> "",
     hasdc |-> FALSE, keys |-> <<>>, grp |-> "", infos |-> <<>>, sev |-> ""]

\* A Vuln: an Info of a severity.
MkVuln(uid, url, token, severity) ==
    [kind |-> "Vuln", uid |-> uid, url |-> url, token |-> token,
     hasdc |-> FALSE, keys |-> <<>>, grp |-> "", infos |-> <<>>,
     sev |-> severity]

\* A Shell: the handle of an exploited session; it has an identity and no
\* severity.
MkShell(uid) ==
    [kind |-> "Shell", uid |-> uid, url |-> "", token |-> "",
     hasdc |-> FALSE, keys |-> <<>>, grp |-> "", infos |-> <<>>, sev |-> ""]

\* A URL object.
MkURL(url) ==
    [kind |-> "URL", uid |-> "", url |-> url, token |-> "",
     hasdc |-> FALSE, keys |-> <<>>, grp |-> "", infos |-> <<>>, sev |-> ""]

\* A FuzzableRequest: an HTTP request to a url.
MkFuzzableRequest(uid, url) ==
    [kind |-> "FuzzableRequest", uid |-> uid, url |-> url, token |-> "",
     hasdc |-> FALSE, keys |-> <<>>, grp |-> "", infos |-> <<>>, sev |-> ""]

\* set_severity(severity)
WithSeverity(v, severity) == [v EXCEPT !.sev = severity]

\* isinstance(v, klass) for klass in a tuple of classes: Info is the base of
\* Vuln; InfoSet and Shell are classes of their own.
ClassesOf(kind) ==
    CASE kind = "Info"    -> {"Info"}
      [] kind = "Vuln"    -> {"Vuln", "Info"}
      [] kind = "InfoSet" -> {"InfoSet"}
      [] kind = "Shell"   -> {"Shell"}
      [] kind = "URL"     -> {"URL"}
      [] kind = "FuzzableRequest" -> {"FuzzableRequest"}
      [] OTHER            -> {}

\* An isinstance that every value passes.
IsInstanceOfAny(v, classes) == TRUE

IsInstance(v, classes) == ClassesOf(v.kind) \cap classes # {}

RECURSIVE ConcatUids(_)
ConcatUids(infos) ==
    IF infos = <<>> THEN "" ELSE Head(infos).uid \o ConcatUids(Tail(infos))

\* get_uniq_id(): an Info returns its own identity attribute, an InfoSet a
\* hash of the concatenated identities of its members.
get_uniq_id(v) ==
    IF v.kind = "InfoSet" THEN "h(" \o ConcatUids(v.infos) \o ")" ELSE v.uid

\* The capability surface of a finding; an InfoSet answers with its first
\* member.
First(v) == IF v.kind = "InfoSet" /\ v.infos # <<>> THEN Head(v.infos) ELSE v

get_url(v) == First(v).url

get_token_name(v) == First(v).token

HasDc(v) == First(v).hasdc

DcKeys(v) == First(v).keys

\* hasattr(obj, 'get_url'): the findings, and a FuzzableRequest (whose
\* get_url() add_fuzzable_request calls).
HasGetUrl(v) == v.kind \in {"Info", "Vuln", "InfoSet", "Shell", "FuzzableRequest"}

\* hasattr(obj, 'get_token_name'): the findings.
HasGetTokenName(v) == v.kind \in {"Info", "Vuln", "InfoSet", "Shell"}

\* hasattr(obj, 'get_severity'): the findings with a severity.
HasSeverity(v) == v.kind \in {"Info", "Vuln", "InfoSet"}

get_severity(v) == First(v).sev

\* InfoSet.match(info): the info carries the attribute value the set groups by.
Match(info_set, info) == First(info_set).grp = info.grp

\* InfoSet.add(info)
InfoSetAdd(info_set, info) == MkInfoSet(Append(info_set.infos, info))

\* self.observers is a dict: a hash table of slots, each free or holding one
\* key.  A table is the sequence of its slots, slot i at index i + 1, a free
\* slot as 0 (a handle is 1 at least).  A dict starts with 8 slots.
MinSize == 8

EmptyTable == [i \in 1..MinSize |-> 0]

\* The number of keys in the table.
Used(table) == Cardinality({i \in 1..Len(table) : table[i] # 0})

RECURSIVE Lookdict(_, _, _, _)
\* The slot of key: the first slot of its probe sequence that is free or
\* holds the key.  The hash of an int is the int; the sequence starts at
\* hash & mask and goes on with i = 5 * i + perturb + 1, perturb = hash at
\* first and shifted right by 5 bits after every probe.
Lookdict(table, key, i, perturb) ==
    LET slot == (i % Len(table)) + 1 IN
    IF table[slot] = 0 \/ table[slot] = key
      THEN slot
      ELSE Lookdict(table, key, 5 * i + perturb + 1, perturb \div 32)

InsertDict(table, key) ==
    [table EXCEPT ![Lookdict(table, key, key % Len(table), key)] = key]

RECURSIVE NewSize(_, _)
\* The size of the resized table: 8 doubled until it is above minused.
NewSize(size, minused) ==
    IF size > minused THEN size ELSE NewSize(2 * size, minused)

RECURSIVE Reinsert(_, _, _)
\* The keys of the slots i.. of the old table, inserted in the order of the
\* slots.
Reinsert(old, i, new) ==
    IF i > Len(old) THEN new
    ELSE Reinsert(old, i + 1, IF old[i] = 0 THEN new ELSE InsertDict(new, old[i]))

DictResize(table, minused) ==
    Reinsert(table, 1, [i \in 1..NewSize(MinSize, minused) |-> 0])

\* d[key] = value: a key the table holds keeps its slot; a new key takes its
\* slot, and a table that is then two thirds full is resized to hold four
\* times its keys (twice, when it has more than 50000).
SetItem(table, key) ==
    LET set == InsertDict(table, key) IN
    IF Used(set) > Used(table) /\ Used(set) * 3 >= Len(set) * 2
      THEN DictResize(set, (IF Used(set) > 50000 THEN 2 ELSE 4) * Used(set))
      ELSE set

\* ------------------------------------------------------------------ state
VARIABLES
    initialized,        \* self.initialized
    attrs,              \* the attributes setup() has assigned so far
    table_name,         \* self.table_name (0: not assigned)
    names_drawn,        \* how many names rand_alpha(30) has produced
    db,                 \* the tables of the database: name -> [rows, idx]
    urls,               \* self.urls
    fuzzable_requests,  \* self.fuzzable_requests
    observers,          \* self.observers: handle -> observer
    observers_table,    \* the hash table of self.observers: slot -> handle
    observer_id,        \* self._observer_id
    held,               \* self._kb_lock: how often each thread holds it
    th,                 \* each thread's call: position, arguments, result
    calls,              \* calls each thread has made
    snap                \* the rows when the running call was made

store == <<initialized, attrs, table_name, names_drawn, db, urls,
           fuzzable_requests, observers, observers_table, observer_id>>

vars == <<initialized, attrs, table_name, names_drawn, db, urls,
          fuzzable_requests, observers, observers_table, observer_id, held, th, calls, snap>>

\* The rows of the store's table, in insertion order.
Rows == IF table_name \in DOMAIN db THEN db[table_name].rows ELSE <<>>

SetupAttrs == {"urls", "fuzzable_requests", "db", "table_name"}

\* setup() has run to its end: every attribute is assigned and the table
\* exists with its two indices.
SetupDone ==
    /\ attrs = SetupAttrs
    /\ table_name \in DOMAIN db
    /\ db[table_name].idx = {"location", "uniq_id"}

\* What is remembered of the call a thread made before the running one.
NoCall ==
    [op |-> "none", a |-> "", b |-> "", kind |-> "", old |-> NoValue,
     new |-> NoValue, pc |-> "idle", got |-> <<>>]

Event(m, a, b, x, y) == [m |-> m, a |-> a, b |-> b, x |-> x, y |-> y]

\* No notification is running.
NoEvent == Event("none", "", "", NoValue, NoValue)

Idle ==
    [pc |-> "idle", stack |-> <<>>, op |-> "none", a |-> "", b |-> "",
     v |-> NoValue, kind |-> "", old |-> NoValue, new |-> NoValue,
     chk |-> TRUE, ign |-> FALSE, got |-> <<>>, ret |-> "none",
     rval |-> NoValue, exc |-> "none", fired |-> <<>>, prev |-> NoCall,
     n |-> 0, before |-> <<>>, at_start |-> <<>>, pending |-> <<>>,
     invoked |-> <<>>, ops |-> <<>>, saved |-> <<>>, out |-> <<>>,
     event |-> NoEvent]

Init ==
    /\ initialized = FALSE
    /\ attrs = {}
    /\ table_name = 0
    /\ names_drawn = 0
    /\ db = <<>>
    /\ urls = {}
    /\ fuzzable_requests = {}
    /\ observers = <<>>
    /\ observers_table = EmptyTable
    /\ observer_id = 0
    /\ held = [t \in Threads |-> 0]
    /\ th = [t \in Threads |-> Idle]
    /\ calls = [t \in Threads |-> 0]
    /\ snap = <<>>

\* ------------------------------------------------------------ control flow
AtRest(t) == th[t].pc \in {"idle", "ret", "raised"}

\* Continue at pc.
Goto(t, pc) == th' = [th EXCEPT ![t].pc = pc]

\* Return from the running function to its caller.
PopTo(r) == [r EXCEPT !.pc = Head(r.stack), !.stack = Tail(r.stack)]

\* An exception leaves every function of the call; each "with self._kb_lock"
\* block it passes releases the lock.
Raised(r, exc) == [r EXCEPT !.pc = "raised", !.stack = <<>>, !.exc = exc]

\* A lock that excludes nobody.
CanAcquireUnguarded(t) == TRUE

\* A lock that its holder cannot take a second time.
CanAcquireOnce(t) == \A u \in Threads : held[u] = 0

\* threading.RLock: free, or already held by the caller.
CanAcquire(t) == \A u \in Threads \ {t} : held[u] = 0

Acquire(t) == held' = [held EXCEPT ![t] = @ + 1]

Release(t) == held' = [held EXCEPT ![t] = IF @ > 0 THEN @ - 1 ELSE 0]

ReleaseAll(t) == held' = [held EXCEPT ![t] = 0]

\* ------------------------------------------------------------------- setup
\* requires_setup: the wrapper of every decorated method.
DecoratedBody(pc) ==
    CASE pc = "get_rs"    -> "get_body"
      [] pc = "append_rs" -> "append_body"
      [] pc = "update_rs" -> "update_body"
      [] pc = "clear_rs"  -> "clear_body"
      [] pc = "raw_write_rs" -> "raw_write_body"
      [] pc = "raw_read_rs"  -> "raw_read_body"
      [] pc = "get_one_rs"   -> "get_one_body"
      [] pc = "get_by_uniq_id_rs" -> "get_by_uniq_id_body"
      [] pc = "get_all_entries_of_class_rs" -> "get_all_entries_of_class_body"
      [] pc = "get_all_vulns_rs" -> "get_all_vulns_body"
      [] pc = "get_all_infos_rs" -> "get_all_infos_body"
      [] pc = "add_url_rs" -> "add_url_body"
      [] pc = "add_fuzzable_request_rs" -> "add_fuzzable_request_body"
      [] pc = "cleanup_rs" -> "cleanup_body"
      [] pc = "remove_rs" -> "remove_body"
      [] pc = "dump_rs" -> "dump_body"
      [] pc = "get_all_known_urls_rs" -> "get_all_known_urls_body"
      [] pc = "get_all_known_fuzzable_requests_rs" ->
             "get_all_known_fuzzable_requests_body"

\* The entries of the decorated methods.
Decorated ==
    {"get_rs", "append_rs", "update_rs", "clear_rs", "raw_write_rs",
     "raw_read_rs", "get_one_rs", "get_by_uniq_id_rs",
     "get_all_entries_of_class_rs", "get_all_vulns_rs", "get_all_infos_rs",
     "add_url_rs", "add_fuzzable_request_rs", "cleanup_rs", "remove_rs",
     "dump_rs", "get_all_known_urls_rs", "get_all_known_fuzzable_requests_rs"}

RequiresSetup(t) ==
    /\ th[t].pc \in Decorated
    /\ IF ~initialized
         THEN th' = [th EXCEPT ![t].pc = "setup_lock",
                               ![t].stack = <<DecoratedBody(th[t].pc)>> \o @]
         ELSE Goto(t, DecoratedBody(th[t].pc))
    /\ UNCHANGED <<store, held, calls, snap>>

\* with self._kb_lock:
SetupLock(t) ==
    /\ th[t].pc = "setup_lock"
    /\ CanAcquire(t)
    /\ Acquire(t)
    /\ Goto(t, "setup_check")
    /\ UNCHANGED <<store, calls, snap>>

\* setup() without its "only initialize once" test.
AlreadyInitializedUnchecked == FALSE

\* if self.initialized: return
AlreadyInitialized == initialized

\* self.initialized = True
SetupCheck(t) ==
    /\ th[t].pc = "setup_check"
    /\ IF AlreadyInitialized
         THEN /\ th' = [th EXCEPT ![t] = PopTo(@)]
              /\ Release(t)
              /\ UNCHANGED initialized
         ELSE /\ initialized' = TRUE
              /\ Goto(t, "setup_urls")
              /\ UNCHANGED held
    /\ UNCHANGED <<attrs, table_name, names_drawn, db, urls,
                   fuzzable_requests, observers, observers_table, observer_id, calls, snap>>

\* self.urls = DiskSet(table_prefix='kb_urls')
SetupUrls(t) ==
    /\ th[t].pc = "setup_urls"
    /\ urls' = {}
    /\ attrs' = attrs \cup {"urls"}
    /\ Goto(t, "setup_freqs")
    /\ UNCHANGED <<initialized, table_name, names_drawn, db,
                   fuzzable_requests, observers, observers_table, observer_id, held, calls,
                   snap>>

\* self.fuzzable_requests = DiskSet(table_prefix='kb_fuzzable_requests')
SetupFuzzableRequests(t) ==
    /\ th[t].pc = "setup_freqs"
    /\ fuzzable_requests' = {}
    /\ attrs' = attrs \cup {"fuzzable_requests"}
    /\ Goto(t, "setup_db")
    /\ UNCHANGED <<initialized, table_name, names_drawn, db, urls,
                   observers, observers_table, observer_id, held, calls, snap>>

\* self.db = get_default_persistent_db_instance()
SetupDb(t) ==
    /\ th[t].pc = "setup_db"
    /\ attrs' = attrs \cup {"db"}
    /\ Goto(t, "setup_name")
    /\ UNCHANGED <<initialized, table_name, names_drawn, db, urls,
                   fuzzable_requests, observers, observers_table, observer_id, held, calls,
                   snap>>

\* self.table_name = 'knowledge_base_' + rand_alpha(30): a name no table has
SetupTableName(t) ==
    /\ th[t].pc = "setup_name"
    /\ names_drawn' = names_drawn + 1
    /\ table_name' = names_drawn + 1
    /\ attrs' = attrs \cup {"table_name"}
    /\ Goto(t, "setup_create")
    /\ UNCHANGED <<initialized, db, urls, fuzzable_requests, observers,
                   observers_table,
                   observer_id, held, calls, snap>>

\* self.db.create_table(self.table_name, self.COLUMNS)
SetupCreateTable(t) ==
    /\ th[t].pc = "setup_create"
    /\ db' = (table_name :> [rows |-> <<>>, idx |-> {}]) @@ db
    /\ Goto(t, "setup_index_a")
    /\ UNCHANGED <<initialized, attrs, table_name, names_drawn, urls,
                   fuzzable_requests, observers, observers_table, observer_id, held, calls,
                   snap>>

\* self.db.create_index(self.table_name, ['location_a', 'location_b'])
SetupIndexLocation(t) ==
    /\ th[t].pc = "setup_index_a"
    /\ IF table_name \in DOMAIN db
         THEN /\ db' = [db EXCEPT ![table_name].idx = @ \cup {"location"}]
              /\ Goto(t, "setup_index_u")
              /\ UNCHANGED held
         ELSE /\ th' = [th EXCEPT ![t] = Raised(@, "DBError")]
              /\ ReleaseAll(t)
              /\ UNCHANGED db
    /\ UNCHANGED <<initialized, attrs, table_name, names_drawn, urls,
                   fuzzable_requests, observers, observers_table, observer_id, calls, snap>>

\* self.db.create_index(self.table_name, ['uniq_id']); self.db.commit();
\* the end of the with block
SetupIndexUniqId(t) ==
    /\ th[t].pc = "setup_index_u"
    /\ IF table_name \in DOMAIN db
         THEN /\ db' = [db EXCEPT ![table_name].idx = @ \cup {"uniq_id"}]
              /\ th' = [th EXCEPT ![t] = PopTo(@)]
              /\ Release(t)
         ELSE /\ th' = [th EXCEPT ![t] = Raised(@, "DBError")]
              /\ ReleaseAll(t)
              /\ UNCHANGED db
    /\ UNCHANGED <<initialized, attrs, table_name, names_drawn, urls,
                   fuzzable_requests, observers, observers_table, observer_id, calls, snap>>

SetupSteps(t) ==
    \/ RequiresSetup(t)
    \/ SetupLock(t)
    \/ SetupCheck(t)
    \/ SetupUrls(t)
    \/ SetupFuzzableRequests(t)
    \/ SetupDb(t)
    \/ SetupTableName(t)
    \/ SetupCreateTable(t)
    \/ SetupIndexLocation(t)
    \/ SetupIndexUniqId(t)

\* --------------------------------------------------------------- the table
\* The store's attributes a statement reads exist (else AttributeError), and
\* so does the table (else the database fails the statement).
StatementFails == ~({"db", "table_name"} \subseteq attrs /\ table_name \in DOMAIN db)

StatementError ==
    IF {"db", "table_name"} \subseteq attrs THEN "DBError" ELSE "AttributeError"

Row(a, b, value, uniq_id) == [a |-> a, b |-> b, uid |-> uniq_id, val |-> value]

\* SELECT pickle FROM table: every stored value, in the order of the table.
AllValues(rows) == [i \in 1..Len(rows) |-> rows[i].val]

\* A SELECT that looks at location_a only.
SelectIgnoringB(table, a, b) ==
    LET found == SelectSeq(table.rows, LAMBDA r : r.a = a)
    IN [i \in 1..Len(found) |-> found[i].val]

RECURSIVE SelectAt(_, _, _)
\* The pickles of the rows with location_a = a and location_b = b, in the
\* order of the table (that of insertion).
SelectAt(rows, a, b) ==
    IF rows = <<>> THEN <<>>
    ELSE LET r == Head(rows)
             rest == SelectAt(Tail(rows), a, b)
         IN IF r.a = a /\ r.b = b THEN <<r.val>> \o rest ELSE rest

\* The location_b values in the order of the index on (location_a,
\* location_b): NULL first, then the strings in their order.
Collation == <<"None", "b1", "b2", "b3">>

RECURSIVE SelectUnder(_, _, _)
\* The pickles of the rows with location_a = a as the index on (location_a,
\* location_b) gives them: by location_b, and in the order of the table
\* under one location_b.
SelectUnder(rows, a, locations) ==
    IF locations = <<>> THEN <<>>
    ELSE SelectAt(rows, a, Head(locations)) \o SelectUnder(rows, a, Tail(locations))

\* SELECT pickle FROM table WHERE location_a = a [and location_b = b]: the
\* statement has no ORDER BY.  Once the index on (location_a, location_b)
\* exists the database answers from it, by location_b; before (a setup()
\* that has created the table and not yet the index) it reads the table, in
\* the order of insertion.
SelectSeq2(table, a, b) ==
    IF b = "None" /\ "location" \in table.idx
      THEN SelectUnder(table.rows, a, Collation)
      ELSE IF b = "None"
        THEN AllValues(SelectSeq(table.rows, LAMBDA r : r.a = a))
        ELSE SelectAt(table.rows, a, b)

FindingClasses == {"Info", "InfoSet", "Shell"}

\* get(location_a, location_b, check_types): the body after requires_setup.
GetBody(t) ==
    /\ th[t].pc = "get_body"
    /\ LET r == th[t]
           result == SelectSeq2(db[table_name], r.a, r.b)
       IN IF StatementFails
            THEN th' = [th EXCEPT ![t] = Raised(@, StatementError)] /\ ReleaseAll(t)
            ELSE IF r.chk /\ \E i \in 1..Len(result) :
                                ~IsInstance(result[i], FindingClasses)
              THEN th' = [th EXCEPT ![t] = Raised(@, "TypeError")] /\ ReleaseAll(t)
              ELSE th' = [th EXCEPT ![t] = PopTo([@ EXCEPT !.got = result])]
                   /\ UNCHANGED held
    /\ UNCHANGED <<store, calls, snap>>

\* _get_uniq_id(obj)
GetUniqId(obj) ==
    IF IsInstance(obj, {"Info", "InfoSet"})
      THEN get_uniq_id(obj)
      ELSE "hash(" \o obj.uid \o ")"

\* The INSERT with the two locations exchanged.
InsertRowSwapped(rows, a, b, value) == Append(rows, Row(b, a, value, GetUniqId(value)))

\* INSERT INTO table VALUES (location_a, location_b, uniq_id, pickle)
InsertRow(rows, a, b, value) == Append(rows, Row(a, b, value, GetUniqId(value)))

\* append(location_a, location_b, value, ignore_type): the body up to the
\* INSERT.
AppendBody(t) ==
    /\ th[t].pc = "append_body"
    /\ LET r == th[t] IN
       IF ~r.ign /\ ~IsInstance(r.new, FindingClasses)
         THEN /\ th' = [th EXCEPT ![t] = Raised(@, "TypeError")]
              /\ ReleaseAll(t)
              /\ UNCHANGED db
         ELSE IF StatementFails
           THEN /\ th' = [th EXCEPT ![t] = Raised(@, StatementError)]
                /\ ReleaseAll(t)
                /\ UNCHANGED db
           ELSE /\ db' = [db EXCEPT ![table_name].rows = InsertRow(@, r.a, r.b, r.new)]
                /\ Goto(t, "append_notify")
                /\ UNCHANGED held
    /\ UNCHANGED <<initialized, attrs, table_name, names_drawn, urls,
                   fuzzable_requests, observers, observers_table, observer_id, calls, snap>>

\* self.observers.items()[:]: a list of the (handle, observer) pairs the
\* registry holds now, in the order of the slots of its table.
ItemsOf(registry, table) ==
    LET slots == SelectSeq(table, LAMBDA k : k # 0)
    IN [i \in 1..Len(slots) |-> <<slots[i], registry[slots[i]]>>]

\* _notify_observers(method, *args) up to its loop: the event is fired (its
\* method and args are those of the whole loop), the list of observers is
\* made and the registry of that moment remembered.
\* With no observer the loop has nothing to do.
Notify(r, event, next) ==
    LET fired == [r EXCEPT !.fired = Append(@, event), !.event = event] IN
    IF DOMAIN observers = {}
      THEN [fired EXCEPT !.pc = next]
      ELSE [fired EXCEPT !.pc = "notify_loop", !.stack = <<next>> \o @,
                         !.at_start = observers,
                         !.pending = ItemsOf(observers, observers_table)]

\* The observers of the list that are registered now.
StillRegistered(pending, registry) ==
    SelectSeq(pending, LAMBDA p : p[1] \in DOMAIN registry /\ registry[p[1]] = p[2])

\* The loop runs over the list made at its start, whatever the registry
\* holds now.
StillToCall(pending, registry) == pending

\* The observers whose handlers do something with the store: hSetup calls
\* setup() on every event; hUniq and hGroup call append_uniq and
\* append_uniq_group when a finding was appended; hRaise raises then.  The
\* handlers of every other observer return at once.
Handlers == {"hSetup", "hUniq", "hGroup", "hRaise"}

Reacts(observer, method) ==
    /\ observer \in Handlers
    /\ observer = "hSetup" \/ method = "append"

\* for _, observer in ...: functor = getattr(observer, method); functor(*args)
\* with a handler that returns at once.
NotifyObserver(t) ==
    /\ th[t].pc = "notify_loop"
    /\ LET todo == StillToCall(th[t].pending, observers) IN
       /\ todo # <<>> => ~Reacts(Head(todo)[2], th[t].event.m)
       /\ IF todo = <<>>
            THEN th' = [th EXCEPT ![t] = PopTo([@ EXCEPT !.pending = <<>>])]
            ELSE th' = [th EXCEPT ![t].pending = Tail(todo),
                                  ![t].invoked =
                                      Append(@, <<Head(todo)[1], Head(todo)[2],
                                                  th[t].event>>)]
    /\ UNCHANGED <<store, held, calls, snap>>

\* self._notify_observers(self.APPEND, location_a, location_b, value)
AppendNotify(t) ==
    /\ th[t].pc = "append_notify"
    /\ th' = [th EXCEPT ![t] =
                Notify(PopTo(@), Event("append", th[t].a, th[t].b, th[t].new, NoValue),
                       Head(th[t].stack))]
    /\ UNCHANGED <<store, held, calls, snap>>

\* The UPDATE setting the pickle and leaving the uniq_id.
UpdateRowsKeepsUniqId(rows, old_uniq_id, new_uniq_id, value) ==
    [i \in 1..Len(rows) |->
        IF rows[i].uid = old_uniq_id
          THEN [rows[i] EXCEPT !.val = value]
          ELSE rows[i]]

\* The UPDATE setting the uniq_id and leaving the pickle.
UpdateRowsKeepsPickle(rows, old_uniq_id, new_uniq_id, value) ==
    [i \in 1..Len(rows) |->
        IF rows[i].uid = old_uniq_id
          THEN [rows[i] EXCEPT !.uid = new_uniq_id]
          ELSE rows[i]]

\* UPDATE table SET pickle = new, uniq_id = new_id WHERE uniq_id = old_id
UpdateRows(rows, old_uniq_id, new_uniq_id, value) ==
    [i \in 1..Len(rows) |->
        IF rows[i].uid = old_uniq_id
          THEN [rows[i] EXCEPT !.uid = new_uniq_id, !.val = value]
          ELSE rows[i]]

RowCount(rows, old_uniq_id) ==
    Cardinality({i \in 1..Len(rows) : rows[i].uid = old_uniq_id})

\* An update that takes every row count.
UpdateAcceptedAlways(rowcount) == TRUE

\* if result.rowcount:
UpdateAccepted(rowcount) == rowcount # 0

\* update(old_info, update_info): the body up to the UPDATE statement and
\* the test of its row count.
UpdateBody(t) ==
    /\ th[t].pc = "update_body"
    /\ LET r == th[t] IN
       IF ~IsInstance(r.old, FindingClasses) \/ ~IsInstance(r.new, FindingClasses)
         THEN /\ th' = [th EXCEPT ![t] = Raised(@, "TypeError")]
              /\ ReleaseAll(t)
              /\ UNCHANGED db
         ELSE IF StatementFails
           THEN /\ th' = [th EXCEPT ![t] = Raised(@, StatementError)]
                /\ ReleaseAll(t)
                /\ UNCHANGED db
           ELSE /\ db' = [db EXCEPT ![table_name].rows =
                            UpdateRows(@, get_uniq_id(r.old), get_uniq_id(r.new), r.new)]
                /\ IF UpdateAccepted(RowCount(Rows, get_uniq_id(r.old)))
                     THEN Goto(t, "update_notify") /\ UNCHANGED held
                     ELSE /\ th' = [th EXCEPT ![t] = Raised(@, "DBException")]
                          /\ ReleaseAll(t)
    /\ UNCHANGED <<initialized, attrs, table_name, names_drawn, urls,
                   fuzzable_requests, observers, observers_table, observer_id, calls, snap>>

\* self._notify_observers(self.UPDATE, old_info, update_info)
UpdateNotify(t) ==
    /\ th[t].pc = "update_notify"
    /\ th' = [th EXCEPT ![t] =
                Notify(PopTo(@), Event("update", "", "", th[t].old, th[t].new),
                       Head(th[t].stack))]
    /\ UNCHANGED <<store, held, calls, snap>>

GetSteps(t) == GetBody(t)

AppendSteps(t) == AppendBody(t) \/ AppendNotify(t)

UpdateSteps(t) == UpdateBody(t) \/ UpdateNotify(t)

\* ------------------------------------------- clear, raw_write and the reads
\* A DELETE that finds no row.
DeleteNothing(rows, a, b) == rows

\* A DELETE that looks at location_a only.
DeleteUnderA(rows, a, b) == SelectSeq(rows, LAMBDA r : r.a # a)

RECURSIVE DeleteRows(_, _, _)
\* DELETE FROM table WHERE location_a = a and location_b = b; with None for
\* location_b the comparison is with NULL and no row meets it.
DeleteRows(rows, a, b) ==
    IF rows = <<>> THEN <<>>
    ELSE LET r == Head(rows)
             rest == DeleteRows(Tail(rows), a, b)
         IN IF r.a = a /\ r.b = b /\ b # "None" THEN rest ELSE <<r>> \o rest

\* clear(location_a, location_b): the body after requires_setup.
Clear(t) ==
    /\ th[t].pc = "clear_body"
    /\ IF StatementFails
         THEN /\ th' = [th EXCEPT ![t] = Raised(@, StatementError)]
              /\ ReleaseAll(t)
              /\ UNCHANGED db
         ELSE /\ db' = [db EXCEPT ![table_name].rows = DeleteRows(@, th[t].a, th[t].b)]
              /\ th' = [th EXCEPT ![t] = PopTo(@)]
              /\ UNCHANGED held
    /\ UNCHANGED <<initialized, attrs, table_name, names_drawn, urls,
                   fuzzable_requests, observers, observers_table, observer_id, calls, snap>>

\* if isinstance(value, Info): raise TypeError
RawWriteRefuses(value) == IsInstance(value, {"Info"})

\* raw_write(location_a, location_b, value): the type test and the call of
\* self.clear.
RawWriteBody(t) ==
    /\ th[t].pc = "raw_write_body"
    /\ IF RawWriteRefuses(th[t].v)
         THEN th' = [th EXCEPT ![t] = Raised(@, "TypeError")]
         ELSE th' = [th EXCEPT ![t].pc = "clear_rs",
                               ![t].stack = <<"raw_write_append">> \o @]
    /\ UNCHANGED <<store, held, calls, snap>>

\* self.append(location_a, location_b, value, ignore_type=True), the last
\* statement of raw_write.
RawWriteAppend(t) ==
    /\ th[t].pc = "raw_write_append"
    /\ th' = [th EXCEPT ![t].pc = "append_rs", ![t].new = th[t].v,
                        ![t].ign = TRUE]
    /\ UNCHANGED <<store, held, calls, snap>>

\* raw_read and get_one: result = self.get(location_a, location_b,
\* check_types=False or True)
ReadOneBody(t) ==
    /\ th[t].pc \in {"raw_read_body", "get_one_body"}
    /\ th' = [th EXCEPT ![t].pc = "get_rs",
                        ![t].chk = (th[t].pc = "get_one_body"),
                        ![t].stack = <<"read_one_result">> \o @]
    /\ UNCHANGED <<store, held, calls, snap>>

\* A test that never finds too many results.
TooManyNever(result) == FALSE

\* if len(result) > 1:
TooMany(result) == Len(result) > 1

\* if len(result) > 1: raise RuntimeError; elif len(result) == 0: return [];
\* else: return result[0]
ReadOneResult(t) ==
    /\ th[t].pc = "read_one_result"
    /\ LET result == th[t].got IN
       IF TooMany(result)
         THEN th' = [th EXCEPT ![t] = Raised(@, "RuntimeError")]
         ELSE IF Len(result) = 0
           THEN th' = [th EXCEPT ![t] = PopTo([@ EXCEPT !.ret = "[]"])]
           ELSE th' = [th EXCEPT ![t] =
                         PopTo([@ EXCEPT !.ret = "value", !.rval = result[1]])]
    /\ UNCHANGED <<store, held, calls, snap>>

\* The rows a SELECT ... WHERE uniq_id = ? finds, in the order of the table.
RowsOfUniqId(rows, uniq_id) == SelectSeq(rows, LAMBDA x : x.uid = uniq_id)

\* get_by_uniq_id(uniq_id): select_one gives the first row found, or None.
GetByUniqId(t) ==
    /\ th[t].pc = "get_by_uniq_id_body"
    /\ LET found == RowsOfUniqId(Rows, th[t].kind) IN
       IF StatementFails
         THEN th' = [th EXCEPT ![t] = Raised(@, StatementError)]
         ELSE IF found = <<>>
           THEN th' = [th EXCEPT ![t] = PopTo([@ EXCEPT !.ret = "None"])]
           ELSE th' = [th EXCEPT ![t] =
                         PopTo([@ EXCEPT !.ret = "value", !.rval = found[1].val])]
    /\ UNCHANGED <<store, held, calls, snap>>

ClearSteps(t) == Clear(t)

RawWriteSteps(t) == RawWriteBody(t) \/ RawWriteAppend(t)

ReadOneSteps(t) == ReadOneBody(t) \/ ReadOneResult(t)

\* --------------------------------------------------------- the bulk queries
\* A query for Info and nothing else.
QueryClassesInfoOnly(klass) == {"Info"}

\* The classes a query names.
QueryClasses(klass) ==
    IF klass = "findings" THEN {"Info", "InfoSet", "Vuln"} ELSE {klass}

\* get_all_findings(): self.get_all_entries_of_class((Info, InfoSet, Vuln))
GetAllFindings(t) ==
    /\ th[t].pc = "get_all_findings"
    /\ th' = [th EXCEPT ![t].pc = "get_all_entries_of_class_rs",
                        ![t].kind = "findings"]
    /\ UNCHANGED <<store, held, calls, snap>>

\* get_all_entries_of_class(klass): the values that are instances of klass.
GetAllEntriesOfClass(t) ==
    /\ th[t].pc = "get_all_entries_of_class_body"
    /\ IF StatementFails
         THEN th' = [th EXCEPT ![t] = Raised(@, StatementError)]
         ELSE th' = [th EXCEPT ![t] =
                 PopTo([@ EXCEPT !.ret = "list", !.got =
                    SelectSeq(AllValues(Rows),
                              LAMBDA obj : IsInstance(obj, QueryClasses(th[t].kind)))])]
    /\ UNCHANGED <<store, held, calls, snap>>

\* Every severity there is.
AllSeverities == {"INFORMATION", "LOW", "MEDIUM", "HIGH"}

\* The severities get_all_vulns takes.
VulnSeverities == {"LOW", "MEDIUM", "HIGH"}

\* The severities get_all_infos takes.
InfoSeverities == {"INFORMATION"}

\* The loop of get_all_vulns and get_all_infos: the values that have a
\* severity, and one among severities.
OfSeverity(rows, severities) ==
    SelectSeq(AllValues(rows),
              LAMBDA obj : HasSeverity(obj) /\ get_severity(obj) \in severities)

\* get_all_vulns()
GetAllVulns(t) ==
    /\ th[t].pc = "get_all_vulns_body"
    /\ IF StatementFails
         THEN th' = [th EXCEPT ![t] = Raised(@, StatementError)]
         ELSE th' = [th EXCEPT ![t] =
                 PopTo([@ EXCEPT !.ret = "list",
                                 !.got = OfSeverity(Rows, VulnSeverities)])]
    /\ UNCHANGED <<store, held, calls, snap>>

\* get_all_infos()
GetAllInfos(t) ==
    /\ th[t].pc = "get_all_infos_body"
    /\ IF StatementFails
         THEN th' = [th EXCEPT ![t] = Raised(@, StatementError)]
         ELSE th' = [th EXCEPT ![t] =
                 PopTo([@ EXCEPT !.ret = "list",
                                 !.got = OfSeverity(Rows, InfoSeverities)])]
    /\ UNCHANGED <<store, held, calls, snap>>

QuerySteps(t) ==
    \/ GetAllFindings(t)
    \/ GetAllEntriesOfClass(t)
    \/ GetAllVulns(t)
    \/ GetAllInfos(t)

\* get_all_shells(w3af_core=None): self.get_all_entries_of_class(Shell); the
\* loop copies the list.
GetAllShells(t) ==
    /\ th[t].pc = "get_all_shells"
    /\ th' = [th EXCEPT ![t].pc = "get_all_entries_of_class_rs",
                        ![t].kind = "Shell"]
    /\ UNCHANGED <<store, held, calls, snap>>

\* The result_dict of dump: location_a -> location_b -> the values stored
\* there, in the order of the table.
DumpOf(rows) ==
    [a \in {rows[i].a : i \in 1..Len(rows)} |->
        [b \in {rows[i].b : i \in {j \in 1..Len(rows) : rows[j].a = a}} |->
            SelectAt(rows, a, b)]]

\* dump(): the body after requires_setup.
Dump(t) ==
    /\ th[t].pc = "dump_body"
    /\ IF StatementFails
         THEN th' = [th EXCEPT ![t] = Raised(@, StatementError)]
         ELSE th' = [th EXCEPT ![t] =
                 PopTo([@ EXCEPT !.ret = "dict", !.out = DumpOf(Rows)])]
    /\ UNCHANGED <<store, held, calls, snap>>

ScanSteps(t) == GetAllShells(t) \/ Dump(t)

\* get_all_known_urls(): return self.urls
GetAllKnownUrls(t) ==
    /\ th[t].pc = "get_all_known_urls_body"
    /\ IF "urls" \in attrs
         THEN th' = [th EXCEPT ![t] = PopTo([@ EXCEPT !.ret = "set", !.out = urls])]
         ELSE th' = [th EXCEPT ![t] = Raised(@, "AttributeError")]
    /\ UNCHANGED <<store, held, calls, snap>>

\* get_all_known_fuzzable_requests(): return self.fuzzable_requests
GetAllKnownFuzzableRequests(t) ==
    /\ th[t].pc = "get_all_known_fuzzable_requests_body"
    /\ IF "fuzzable_requests" \in attrs
         THEN th' = [th EXCEPT ![t] =
                 PopTo([@ EXCEPT !.ret = "set", !.out = fuzzable_requests])]
         ELSE th' = [th EXCEPT ![t] = Raised(@, "AttributeError")]
    /\ UNCHANGED <<store, held, calls, snap>>

KnownSteps(t) == GetAllKnownUrls(t) \/ GetAllKnownFuzzableRequests(t)

\* ------------------------------------------------ observers and known urls
\* get_observer_id(): self._observer_id += 1 reads the attribute ...
GetObserverIdRead(t) ==
    /\ th[t].pc = "get_observer_id"
    /\ th' = [th EXCEPT ![t].pc = "get_observer_id_store", ![t].n = observer_id]
    /\ UNCHANGED <<store, held, calls, snap>>

\* ... and assigns it the value read plus one.
GetObserverIdStore(t) ==
    /\ th[t].pc = "get_observer_id_store"
    /\ observer_id' = th[t].n + 1
    /\ Goto(t, "get_observer_id_return")
    /\ UNCHANGED <<initialized, attrs, table_name, names_drawn, db, urls,
                   fuzzable_requests, observers, observers_table, held, calls,
                   snap>>

\* return self._observer_id: the attribute as it is now.
GetObserverIdReturn(t) ==
    /\ th[t].pc = "get_observer_id_return"
    /\ th' = [th EXCEPT ![t] = PopTo([@ EXCEPT !.n = observer_id,
                                               !.ret = "handle"])]
    /\ UNCHANGED <<store, held, calls, snap>>

\* add_observer(observer): self.observers[observer_id] = observer
AddObserver(t) ==
    /\ th[t].pc = "add_observer"
    /\ observers' = (th[t].n :> th[t].kind) @@ observers
    /\ observers_table' = SetItem(observers_table, th[t].n)
    /\ th' = [th EXCEPT ![t] = PopTo([@ EXCEPT !.ret = "None"])]
    /\ UNCHANGED <<initialized, attrs, table_name, names_drawn, db, urls,
                   fuzzable_requests, observer_id, held, calls, snap>>

\* What DiskSet.add(x) returns: True when x was not in the set.
Added(set, x) == x \notin set

\* add_url(url): the type test and self._notify_observers(self.ADD_URL, url)
AddUrlBody(t) ==
    /\ th[t].pc = "add_url_body"
    /\ IF ~IsInstance(th[t].v, {"URL"})
         THEN th' = [th EXCEPT ![t] = Raised(@, "TypeError")]
         ELSE th' = [th EXCEPT ![t] =
                        Notify(@, Event("add_url", "", "", th[t].v, NoValue),
                               "add_url_add")]
    /\ UNCHANGED <<store, held, calls, snap>>

\* return self.urls.add(url): True if the url was not in the set.
AddUrlAdd(t) ==
    /\ th[t].pc = "add_url_add"
    /\ IF "urls" \in attrs
         THEN /\ urls' = urls \cup {th[t].v}
              /\ th' = [th EXCEPT ![t] =
                    PopTo([@ EXCEPT !.ret = IF Added(urls, th[t].v) THEN "True"
                                                                   ELSE "False"])]
         ELSE /\ th' = [th EXCEPT ![t] = Raised(@, "AttributeError")]
              /\ UNCHANGED urls
    /\ UNCHANGED <<initialized, attrs, table_name, names_drawn, db,
                   fuzzable_requests, observers, observers_table, observer_id, held, calls, snap>>

AddObserverSteps(t) ==
    \/ GetObserverIdRead(t)
    \/ GetObserverIdStore(t)
    \/ GetObserverIdReturn(t)
    \/ AddObserver(t)

AddUrlSteps(t) == AddUrlBody(t) \/ AddUrlAdd(t)

\* add_fuzzable_request that returns what add_url returned.
AfrResultOfUrl(url_added, request_added) == url_added

\* self.add_url(...); return self.fuzzable_requests.add(fuzzable_request):
\* what add_url returned is dropped.
AfrResult(url_added, request_added) == request_added

\* add_fuzzable_request(fuzzable_request): the type test and the call
\* self.add_url(fuzzable_request.get_url())
AddFuzzableRequestBody(t) ==
    /\ th[t].pc = "add_fuzzable_request_body"
    /\ IF ~IsInstance(th[t].old, {"FuzzableRequest"})
         THEN th' = [th EXCEPT ![t] = Raised(@, "TypeError")]
         ELSE th' = [th EXCEPT ![t].pc = "add_url_rs",
                               ![t].v = MkURL(get_url(th[t].old)),
                               ![t].stack = <<"add_fuzzable_request_add">> \o @]
    /\ UNCHANGED <<store, held, calls, snap>>

\* return self.fuzzable_requests.add(fuzzable_request)
AddFuzzableRequestAdd(t) ==
    /\ th[t].pc = "add_fuzzable_request_add"
    /\ IF "fuzzable_requests" \in attrs
         THEN /\ fuzzable_requests' = fuzzable_requests \cup {th[t].old}
              /\ th' = [th EXCEPT ![t] =
                    PopTo([@ EXCEPT !.ret =
                        IF AfrResult(th[t].ret = "True",
                                     Added(fuzzable_requests, th[t].old))
                          THEN "True" ELSE "False"])]
         ELSE /\ th' = [th EXCEPT ![t] = Raised(@, "AttributeError")]
              /\ UNCHANGED fuzzable_requests
    /\ UNCHANGED <<initialized, attrs, table_name, names_drawn, db, urls,
                   observers, observers_table, observer_id, held, calls, snap>>

AddFuzzableRequestSteps(t) == AddFuzzableRequestBody(t) \/ AddFuzzableRequestAdd(t)

\* ----------------------------------------------------------------- cleanup
\* A DELETE that finds no row to delete.
DeleteNone(rows) == rows

\* DELETE FROM table WHERE 1=1
DeleteAll(rows) == <<>>

\* cleanup(): the DELETE.
CleanupBody(t) ==
    /\ th[t].pc = "cleanup_body"
    /\ IF StatementFails
         THEN /\ th' = [th EXCEPT ![t] = Raised(@, StatementError)]
              /\ UNCHANGED db
         ELSE /\ db' = [db EXCEPT ![table_name].rows = DeleteAll(@)]
              /\ Goto(t, "cleanup_urls")
    /\ UNCHANGED <<initialized, attrs, table_name, names_drawn, urls,
                   fuzzable_requests, observers, observers_table, observer_id, held, calls, snap>>

\* self.urls.cleanup(): the set loses what it held.
CleanupUrls(t) ==
    /\ th[t].pc = "cleanup_urls"
    /\ urls' = {}
    /\ Goto(t, "cleanup_urls_new")
    /\ UNCHANGED <<initialized, attrs, table_name, names_drawn, db,
                   fuzzable_requests, observers, observers_table, observer_id, held, calls, snap>>

\* self.urls = DiskSet(table_prefix='kb_urls'): an empty set takes its place.
CleanupUrlsNew(t) ==
    /\ th[t].pc = "cleanup_urls_new"
    /\ urls' = {}
    /\ Goto(t, "cleanup_freqs")
    /\ UNCHANGED <<initialized, attrs, table_name, names_drawn, db,
                   fuzzable_requests, observers, observers_table, observer_id, held, calls, snap>>

\* self.fuzzable_requests.cleanup()
CleanupFuzzableRequests(t) ==
    /\ th[t].pc = "cleanup_freqs"
    /\ fuzzable_requests' = {}
    /\ Goto(t, "cleanup_freqs_new")
    /\ UNCHANGED <<initialized, attrs, table_name, names_drawn, db, urls,
                   observers, observers_table, observer_id, held, calls, snap>>

\* self.fuzzable_requests = DiskSet(table_prefix='kb_fuzzable_requests')
CleanupFuzzableRequestsNew(t) ==
    /\ th[t].pc = "cleanup_freqs_new"
    /\ fuzzable_requests' = {}
    /\ Goto(t, "cleanup_observers")
    /\ UNCHANGED <<initialized, attrs, table_name, names_drawn, db, urls,
                   observers, observers_table, observer_id, held, calls, snap>>

\* self.observers.clear()
CleanupObservers(t) ==
    /\ th[t].pc = "cleanup_observers"
    /\ observers' = <<>>
    /\ observers_table' = EmptyTable
    /\ th' = [th EXCEPT ![t] = PopTo(@)]
    /\ UNCHANGED <<initialized, attrs, table_name, names_drawn, db, urls,
                   fuzzable_requests, observer_id, held, calls, snap>>

CleanupSteps(t) ==
    \/ CleanupBody(t)
    \/ CleanupUrls(t)
    \/ CleanupUrlsNew(t)
    \/ CleanupFuzzableRequests(t)
    \/ CleanupFuzzableRequestsNew(t)
    \/ CleanupObservers(t)

\* ------------------------------------------------------------------ remove
\* A DROP TABLE that leaves the table where it is.
DropNothing(tables, name) == tables

\* DROP TABLE name
DropTable(tables, name) == [n \in DOMAIN tables \ {name} |-> tables[n]]

\* self.db.drop_table(self.table_name)
RemoveBody(t) ==
    /\ th[t].pc = "remove_body"
    /\ IF StatementFails
         THEN /\ th' = [th EXCEPT ![t] = Raised(@, StatementError)]
              /\ UNCHANGED db
         ELSE /\ db' = DropTable(db, table_name)
              /\ Goto(t, "remove_urls")
    /\ UNCHANGED <<initialized, attrs, table_name, names_drawn, urls,
                   fuzzable_requests, observers, observers_table, observer_id, held, calls, snap>>

\* self.urls.cleanup()
RemoveUrls(t) ==
    /\ th[t].pc = "remove_urls"
    /\ urls' = {}
    /\ Goto(t, "remove_freqs")
    /\ UNCHANGED <<initialized, attrs, table_name, names_drawn, db,
                   fuzzable_requests, observers, observers_table, observer_id, held, calls, snap>>

\* self.fuzzable_requests.cleanup()
RemoveFuzzableRequests(t) ==
    /\ th[t].pc = "remove_freqs"
    /\ fuzzable_requests' = {}
    /\ Goto(t, "remove_observers")
    /\ UNCHANGED <<initialized, attrs, table_name, names_drawn, db, urls,
                   observers, observers_table, observer_id, held, calls, snap>>

\* self.observers.clear()
RemoveObservers(t) ==
    /\ th[t].pc = "remove_observers"
    /\ observers' = <<>>
    /\ observers_table' = EmptyTable
    /\ th' = [th EXCEPT ![t] = PopTo(@)]
    /\ UNCHANGED <<initialized, attrs, table_name, names_drawn, db, urls,
                   fuzzable_requests, observer_id, held, calls, snap>>

RemoveSteps(t) ==
    \/ RemoveBody(t)
    \/ RemoveUrls(t)
    \/ RemoveFuzzableRequests(t)
    \/ RemoveObservers(t)

\* ------------------------------------------------------------- append_uniq
\* filter_url that also wants the token name to be the same.
filter_url_and_token(saved, info_inst) ==
    ~\E i \in 1..Len(saved) :
        /\ get_url(saved[i]) = get_url(info_inst)
        /\ get_token_name(saved[i]) = get_token_name(info_inst)

\* filter_url over the records get(location_a, location_b) returned: True
\* when none has the url of info_inst.
filter_url(saved, info_inst) ==
    ~\E i \in 1..Len(saved) : get_url(saved[i]) = get_url(info_inst)

\* filter_var with the two data container tests exchanged.
filter_var_dc_swapped(saved, info_inst) ==
    ~\E i \in 1..Len(saved) :
        /\ get_token_name(saved[i]) = get_token_name(info_inst)
        /\ get_url(saved[i]) = get_url(info_inst)
        /\ \/ HasDc(saved[i]) /\ HasDc(info_inst)
           \/ /\ ~HasDc(saved[i]) /\ ~HasDc(info_inst)
              /\ DcKeys(saved[i]) # DcKeys(info_inst)

\* filter_var over the records get(location_a, location_b) returned: True
\* when none has the token name, the url and the data container keys() of
\* info_inst.  keys() is a list: the comparison is of lists.
filter_var(saved, info_inst) ==
    ~\E i \in 1..Len(saved) :
        /\ get_token_name(saved[i]) = get_token_name(info_inst)
        /\ get_url(saved[i]) = get_url(info_inst)
        /\ \/ ~HasDc(saved[i]) /\ ~HasDc(info_inst)
           \/ /\ HasDc(saved[i]) /\ HasDc(info_inst)
              /\ DcKeys(saved[i]) = DcKeys(info_inst)

\* self.FILTERS
FILTERS == {"URL", "VAR"}

filter_function(filter_by, saved, info_inst) ==
    IF filter_by = "URL" THEN filter_url(saved, info_inst)
                         ELSE filter_var(saved, info_inst)

\* filter_url(location_a, location_b, info_inst) and filter_var(...) called
\* by a plugin: for saved_vuln in self.get(location_a, location_b)
FilterGet(t) ==
    /\ th[t].pc = "filter_get"
    /\ th' = [th EXCEPT ![t].pc = "get_rs", ![t].chk = TRUE,
                        ![t].stack = <<"filter_result">> \o @]
    /\ UNCHANGED <<store, held, calls, snap>>

\* The method of info_inst the filter calls in its first comparison.
FilterCanCompare(filter_by, info_inst) ==
    IF filter_by = "URL" THEN HasGetUrl(info_inst)
                         ELSE HasGetTokenName(info_inst)

\* The loop of the filter and its return True or return False.  The first
\* comparison calls get_url() (filter_url) or get_token_name() (filter_var)
\* of the first record and then of info_inst: an info_inst without that
\* method raises AttributeError there; with no record nothing is called.
FilterResult(t) ==
    /\ th[t].pc = "filter_result"
    /\ LET r == th[t] IN
       IF r.got # <<>> /\ ~FilterCanCompare(r.kind, r.v)
         THEN th' = [th EXCEPT ![t] = Raised(@, "AttributeError")]
         ELSE th' = [th EXCEPT ![t] =
                 PopTo([@ EXCEPT !.ret =
                    IF filter_function(r.kind, r.got, r.v) THEN "True" ELSE "False"])]
    /\ UNCHANGED <<store, held, calls, snap>>

FilterSteps(t) == FilterGet(t) \/ FilterResult(t)

\* The argument checks of append_uniq.
AppendUniqCheck(t) ==
    /\ th[t].pc = "au_check"
    /\ IF ~IsInstance(th[t].v, {"Info"}) \/ th[t].kind \notin FILTERS
         THEN th' = [th EXCEPT ![t] = Raised(@, "ValueError")] /\ ReleaseAll(t)
         ELSE Goto(t, "au_lock") /\ UNCHANGED held
    /\ UNCHANGED <<store, calls, snap>>

\* with self._kb_lock: and the call of self.get the filter starts with.
AppendUniqLock(t) ==
    /\ th[t].pc = "au_lock"
    /\ CanAcquire(t)
    /\ Acquire(t)
    /\ th' = [th EXCEPT ![t].pc = "get_rs", ![t].chk = TRUE,
                        ![t].stack = <<"au_filter">> \o @]
    /\ UNCHANGED <<store, calls, snap>>

\* if filter_function(...): self.append(...) ... else: return False
AppendUniqFilter(t) ==
    /\ th[t].pc = "au_filter"
    /\ IF filter_function(th[t].kind, th[t].got, th[t].v)
         THEN /\ th' = [th EXCEPT ![t].pc = "append_rs", ![t].new = th[t].v,
                                  ![t].ign = FALSE,
                                  ![t].stack = <<"au_added">> \o @]
              /\ UNCHANGED held
         ELSE /\ th' = [th EXCEPT ![t] = PopTo([@ EXCEPT !.ret = "False"])]
              /\ Release(t)
    /\ UNCHANGED <<store, calls, snap>>

\* return True, leaving the with block
AppendUniqAdded(t) ==
    /\ th[t].pc = "au_added"
    /\ th' = [th EXCEPT ![t] = PopTo([@ EXCEPT !.ret = "True"])]
    /\ Release(t)
    /\ UNCHANGED <<store, calls, snap>>

AppendUniqSteps(t) ==
    \/ AppendUniqCheck(t)
    \/ AppendUniqLock(t)
    \/ AppendUniqFilter(t)
    \/ AppendUniqAdded(t)

\* ------------------------------------------------------- append_uniq_group
\* The argument checks of append_uniq_group.
AppendUniqGroupCheck(t) ==
    /\ th[t].pc = "aug_check"
    /\ IF ~IsInstance(th[t].v, {"Info"}) \/ th[t].kind # "InfoSet"
         THEN th' = [th EXCEPT ![t] = Raised(@, "TypeError")] /\ ReleaseAll(t)
         ELSE Goto(t, "aug_lock") /\ UNCHANGED held
    /\ UNCHANGED <<store, calls, snap>>

\* with self._kb_lock: and the call of self.get the loop starts with.
AppendUniqGroupLock(t) ==
    /\ th[t].pc = "aug_lock"
    /\ CanAcquire(t)
    /\ Acquire(t)
    /\ th' = [th EXCEPT ![t].pc = "get_rs", ![t].chk = TRUE,
                        ![t].stack = <<"aug_scan">> \o @]
    /\ UNCHANGED <<store, calls, snap>>

\* The loop taking any InfoSet of the address, matching or not.
MatchingUnchecked(saved, info_inst) ==
    {i \in 1..Len(saved) : IsInstance(saved[i], {"InfoSet"})}

\* The records of the loop that are InfoSets matching info_inst.
Matching(saved, info_inst) ==
    {i \in 1..Len(saved) :
        IsInstance(saved[i], {"InfoSet"}) /\ Match(saved[i], info_inst)}

Min(S) == CHOOSE i \in S : \A j \in S : i <= j

\* for info_set in self.get(...): the first matching InfoSet is copied,
\* extended and handed to update; without one a new InfoSet is appended.
AppendUniqGroupScan(t) ==
    /\ th[t].pc = "aug_scan"
    /\ LET r == th[t]
           hits == Matching(r.got, r.v)
       IN IF hits # {}
            THEN th' = [th EXCEPT ![t].pc = "update_rs",
                                  ![t].old = r.got[Min(hits)],
                                  ![t].new = InfoSetAdd(r.got[Min(hits)], r.v),
                                  ![t].stack = <<"aug_merged">> \o @]
            ELSE th' = [th EXCEPT ![t].pc = "append_rs",
                                  ![t].new = MkInfoSet(<<r.v>>),
                                  ![t].ign = FALSE,
                                  ![t].stack = <<"aug_created">> \o @]
    /\ UNCHANGED <<store, held, calls, snap>>

\* return info_set, False
AppendUniqGroupMerged(t) ==
    /\ th[t].pc = "aug_merged"
    /\ th' = [th EXCEPT ![t] = PopTo([@ EXCEPT !.ret = "False", !.rval = th[t].new])]
    /\ Release(t)
    /\ UNCHANGED <<store, calls, snap>>

\* return info_set, True
AppendUniqGroupCreated(t) ==
    /\ th[t].pc = "aug_created"
    /\ th' = [th EXCEPT ![t] = PopTo([@ EXCEPT !.ret = "True", !.rval = th[t].new])]
    /\ Release(t)
    /\ UNCHANGED <<store, calls, snap>>

AppendUniqGroupSteps(t) ==
    \/ AppendUniqGroupCheck(t)
    \/ AppendUniqGroupLock(t)
    \/ AppendUniqGroupScan(t)
    \/ AppendUniqGroupMerged(t)
    \/ AppendUniqGroupCreated(t)

\* ------------------------------------------------------------------- calls
\* A call of a public method by a plugin: c names the method and gives its
\* arguments.
CallOf(op, a, b, v, kind, old, new) ==
    [op |-> op, a |-> a, b |-> b, v |-> v, kind |-> kind, old |-> old,
     new |-> new, chk |-> TRUE, ign |-> FALSE]

Entry(op) ==
    CASE op = "setup"             -> "setup_lock"
      [] op = "append"            -> "append_rs"
      [] op = "update"            -> "update_rs"
      [] op = "append_uniq"       -> "au_check"
      [] op = "append_uniq_group" -> "aug_check"
      [] op = "get"               -> "get_rs"
      [] op = "clear"             -> "clear_rs"
      [] op = "raw_write"         -> "raw_write_rs"
      [] op = "raw_read"          -> "raw_read_rs"
      [] op = "get_one"           -> "get_one_rs"
      [] op = "get_by_uniq_id"    -> "get_by_uniq_id_rs"
      [] op = "get_all_entries_of_class" -> "get_all_entries_of_class_rs"
      [] op = "get_all_findings"  -> "get_all_findings"
      [] op = "get_all_vulns"     -> "get_all_vulns_rs"
      [] op = "get_all_infos"     -> "get_all_infos_rs"
      [] op = "add_observer"      -> "get_observer_id"
      [] op = "add_url"           -> "add_url_rs"
      [] op = "add_fuzzable_request" -> "add_fuzzable_request_rs"
      [] op = "cleanup"           -> "cleanup_rs"
      [] op = "remove"            -> "remove_rs"
      [] op = "dump"              -> "dump_rs"
      [] op = "get_all_known_urls" -> "get_all_known_urls_rs"
      [] op = "get_all_known_fuzzable_requests" ->
             "get_all_known_fuzzable_requests_rs"
      [] op = "get_all_shells"    -> "get_all_shells"
      [] op = "get_observer_id"   -> "get_observer_id"
      [] op = "filter_url"        -> "filter_get"
      [] op = "filter_var"        -> "filter_get"

\* What the call returns to: add_observer starts with its call of
\* get_observer_id, which returns into it.
EntryStack(op) ==
    IF op = "add_observer" THEN <<"add_observer", "ret">> ELSE <<"ret">>

Enter(c) ==
    [Idle EXCEPT !.pc = Entry(c.op), !.stack = EntryStack(c.op), !.op = c.op,
                 !.a = c.a, !.b = c.b, !.v = c.v, !.kind = c.kind,
                 !.old = c.old, !.new = c.new, !.chk = c.chk, !.ign = c.ign,
                 !.ret = "None"]

Setup == CallOf("setup", "", "", NoValue, "", NoValue, NoValue)

AppendCall(a, b, value) == CallOf("append", a, b, NoValue, "", NoValue, value)

UpdateCall(old, new) == CallOf("update", "", "", NoValue, "", old, new)

AppendUniq(a, b, info, filter_by) ==
    CallOf("append_uniq", a, b, info, filter_by, NoValue, NoValue)

AppendUniqGroup(a, b, info, group_klass) ==
    CallOf("append_uniq_group", a, b, info, group_klass, NoValue, NoValue)

\* append(location_a, location_b, value, ignore_type=True)
AppendIgnoringType(a, b, value) == [AppendCall(a, b, value) EXCEPT !.ign = TRUE]

GetCall(a, b, check_types) ==
    [CallOf("get", a, b, NoValue, "", NoValue, NoValue) EXCEPT !.chk = check_types]

ClearCall(a, b) == CallOf("clear", a, b, NoValue, "", NoValue, NoValue)

RawWrite(a, b, value) == CallOf("raw_write", a, b, value, "", NoValue, NoValue)

RawRead(a, b) == CallOf("raw_read", a, b, NoValue, "", NoValue, NoValue)

GetOne(a, b) == CallOf("get_one", a, b, NoValue, "", NoValue, NoValue)

GetByUniqIdCall(uniq_id) ==
    CallOf("get_by_uniq_id", "", "", NoValue, uniq_id, NoValue, NoValue)

AddObserverCall(observer) ==
    CallOf("add_observer", "", "", NoValue, observer, NoValue, NoValue)

AddUrl(url) == CallOf("add_url", "", "", url, "", NoValue, NoValue)

AddFuzzableRequest(fuzzable_request) ==
    CallOf("add_fuzzable_request", "", "", NoValue, "", fuzzable_request, NoValue)

CleanupCall == CallOf("cleanup", "", "", NoValue, "", NoValue, NoValue)

RemoveCall == CallOf("remove", "", "", NoValue, "", NoValue, NoValue)

DumpCall == CallOf("dump", "", "", NoValue, "", NoValue, NoValue)

GetAllKnownUrlsCall ==
    CallOf("get_all_known_urls", "", "", NoValue, "", NoValue, NoValue)

GetAllKnownFuzzableRequestsCall ==
    CallOf("get_all_known_fuzzable_requests", "", "", NoValue, "", NoValue, NoValue)

GetAllShellsCall == CallOf("get_all_shells", "", "", NoValue, "", NoValue, NoValue)

GetObserverIdCall == CallOf("get_observer_id", "", "", NoValue, "", NoValue, NoValue)

FilterUrl(a, b, info_inst) == CallOf("filter_url", a, b, info_inst, "URL", NoValue, NoValue)

FilterVar(a, b, info_inst) == CallOf("filter_var", a, b, info_inst, "VAR", NoValue, NoValue)

GetAllFindingsCall == CallOf("get_all_findings", "", "", NoValue, "", NoValue, NoValue)

GetAllVulnsCall == CallOf("get_all_vulns", "", "", NoValue, "", NoValue, NoValue)

GetAllInfosCall == CallOf("get_all_infos", "", "", NoValue, "", NoValue, NoValue)

\* ------------------------------------------------- the first calls of a scan
\* Findings the plugins report.  iA1 and iA2 are two findings of the same
\* url, token and (absent) data container, i.e. equivalent under VAR.
iA1 == MkInfo("x1", "u1", "t1", FALSE, <<>>, "g1")

iA2 == MkInfo("x2", "u1", "t1", FALSE, <<>>, "g1")

\* iB differs from them in the token.
iB == MkInfo("x3", "u1", "t2", FALSE, <<>>, "g1")

\* What a thread may call first on the freshly constructed store.
FirstCalls ==
    {Setup, AppendCall("a1", "b1", iA2)}
    \cup {AppendUniq("a1", "b1", i, "VAR") : i \in {iA1, iA2, iB}}
    \cup {AppendUniq("a1", "b1", iA2, "URL")}
    \cup {AppendUniqGroup("a1", "b1", i, "InfoSet") : i \in {iA1, iA2}}

\* Every thread makes one call on the fresh store.
FirstCall(t) ==
    /\ th[t].pc = "idle"
    /\ calls[t] = 0
    /\ \E c \in FirstCalls : th' = [th EXCEPT ![t] = Enter(c)]
    /\ calls' = [calls EXCEPT ![t] = 1]
    /\ UNCHANGED <<store, held, snap>>

Next ==
    \E t \in Threads :
        \/ FirstCall(t)
        \/ SetupSteps(t)
        \/ GetSteps(t)
        \/ AppendSteps(t)
        \/ UpdateSteps(t)
        \/ AppendUniqSteps(t)
        \/ AppendUniqGroupSteps(t)

Spec == Init /\ [][Next]_vars

\* ========================================================================
\* Properties of the first calls (specification Spec)
\* ========================================================================
Returned(t) == th[t].pc = "ret"

Finished(t) == th[t].pc \in {"ret", "raised"}

\* The records stored at (a, b).
At(rows, a, b) == SelectAt(rows, a, b)

\* x and y are duplicates under the filter kind: the same url under URL; the
\* same token name, url and data container keys() under VAR.
Duplicates(kind, x, y) ==
    IF kind = "URL"
      THEN x.url = y.url
      ELSE /\ x.token = y.token /\ x.url = y.url
           /\ x.hasdc = y.hasdc
           /\ x.hasdc => x.keys = y.keys

\* How many of the records match info under the filter kind.
Matches(saved, kind, info) ==
    Cardinality({i \in 1..Len(saved) : Duplicates(kind, First(saved[i]), info)})

\* Every thread's call is among ops, and the append_uniq calls are under VAR
\* with Infos that are duplicates of each other.
EquivalentUniqCalls(ops) ==
    /\ \A t \in Threads :
          /\ th[t].op \in ops
          /\ th[t].op = "append_uniq" => th[t].kind = "VAR"
    /\ \A t, u \in Threads :
          (th[t].op = "append_uniq" /\ th[u].op = "append_uniq")
             => Duplicates("VAR", th[t].v, th[u].v)

C2_NoBodyBeforeSetupDone ==
    \A t \in Threads :
        th[t].pc \in {"get_body", "append_body", "update_body"} => SetupDone

\* What setup() assigns and creates.
SetupEffect == <<attrs, table_name, names_drawn, DOMAIN db, urls, fuzzable_requests>>

\* C3: the side effect of setup() happens once: at most one table name is
\* drawn and one table created; when all calls are over it did happen; and
\* once setup() has finished no step changes the table name, the set of
\* tables, its indices, the attributes or the Coverage Sets.
C3_SetupOnce ==
    /\ [](/\ names_drawn <= 1
          /\ Cardinality(DOMAIN db) <= 1
          /\ (\A t \in Threads : Finished(t)) => (SetupDone /\ names_drawn = 1))
    /\ [][SetupDone => /\ SetupEffect' = SetupEffect
                       /\ db'[table_name].idx = db[table_name].idx]_vars

\* Two threads made their first call, one of them setup() itself, and both
\* are over.
C3_Witness ==
    /\ \A t \in Threads : Finished(t)
    /\ \E t, u \in Threads : t # u /\ th[t].op = "setup" /\ th[u].op # "setup"
    /\ SetupDone

\* C4 as claimed: whenever an append_uniq(a, b, info, kind) call returns,
\* (a, b) holds at most one record matching info under kind, whatever the
\* other calls were.
C4_AtMostOneMatchAlways ==
    [][\A t \in Threads :
          (th[t].op = "append_uniq" /\ ~Returned(t) /\ th'[t].pc = "ret")
             => Matches(At(Rows', th[t].a, th[t].b), th[t].kind, th[t].v) <= 1]_vars

\* The writers so far are append_uniq calls with the filter kind.
OnlyAppendUniq(kind) ==
    \A u \in Threads :
        \/ th[u].op \in {"none", "setup"}
        \/ th[u].op = "append_uniq" /\ th[u].kind = kind

\* C4 amended: whenever an append_uniq(a, b, info, kind) call returns, (a, b)
\* holds at most one record matching info under kind, provided the records
\* were written by append_uniq calls with that kind only.
C4_AtMostOneMatch ==
    [][\A t \in Threads :
          (/\ th[t].op = "append_uniq" /\ ~Returned(t) /\ th'[t].pc = "ret"
           /\ OnlyAppendUniq(th[t].kind))
             => Matches(At(Rows', th[t].a, th[t].b), th[t].kind, th[t].v) <= 1]_vars

\* An append_uniq call has returned False next to another that returned
\* True: the record of the one matched the Info of the other.
C4_Witness ==
    /\ OnlyAppendUniq("VAR")
    /\ \E t, u \in Threads :
          /\ Returned(t) /\ th[t].op = "append_uniq" /\ th[t].ret = "False"
          /\ Returned(u) /\ th[u].op = "append_uniq" /\ th[u].ret = "True"
          /\ Matches(At(Rows, th[t].a, th[t].b), th[t].kind, th[t].v) = 1

\* The InfoSet records stored at (a, b).
InfoSetsAt(rows, a, b) ==
    SelectSeq(At(rows, a, b), LAMBDA x : IsInstance(x, {"InfoSet"}))

Members(info_set) == {info_set.infos[i] : i \in 1..Len(info_set.infos)}

\* C8: append_uniq_group calls at one address with Infos of one group: there
\* is never a second InfoSet at the address, no call fails, and when all
\* calls are over the stored InfoSet holds the Info of every call.
C8_OneInfoSetNoLostMerge ==
    /\ Len(InfoSetsAt(Rows, "a1", "b1")) <= 1
    /\ Cardinality({t \in Threads : th[t].op = "append_uniq_group"
                                      /\ th[t].ret = "True"}) <= 1
    /\ \A t \in Threads : th[t].op = "append_uniq_group" => th[t].pc # "raised"
    /\ (\A t \in Threads : Finished(t))
          => \A t \in Threads :
                th[t].op = "append_uniq_group"
                   => /\ Len(InfoSetsAt(Rows, "a1", "b1")) = 1
                      /\ th[t].v \in Members(InfoSetsAt(Rows, "a1", "b1")[1])

\* Two append_uniq_group calls with different Infos are over and the one
\* InfoSet holds both.
C8_Witness ==
    /\ \A t \in Threads : Finished(t)
    /\ \E t, u \in Threads :
          /\ th[t].op = "append_uniq_group" /\ th[u].op = "append_uniq_group"
          /\ th[t].v # th[u].v
          /\ th[t].ret = "True" /\ th[u].ret = "False"
    /\ Len(InfoSetsAt(Rows, "a1", "b1")) = 1
    /\ Len(InfoSetsAt(Rows, "a1", "b1")[1].infos) = 2

\* ========================================================================
\* One plugin thread calling append_uniq again and again (SpecUniq)
\* ========================================================================
\* More findings: iE differs from iA1 in the url; iC, iC2 and iD carry a data
\* container, iC and iC2 with the same keys() list, iD with the same keys in
\* another order.
iC == MkInfo("x4", "u1", "t1", TRUE, <<"k1", "k2">>, "g1")

iC2 == MkInfo("x5", "u1", "t1", TRUE, <<"k1", "k2">>, "g1")

iD == MkInfo("x6", "u1", "t1", TRUE, <<"k2", "k1">>, "g1")

iE == MkInfo("x7", "u2", "t1", FALSE, <<>>, "g2")

UniqInfos == {iA1, iA2, iB, iC, iC2, iD, iE}

UniqCalls ==
    {AppendUniq("a1", "b1", i, k) : i \in UniqInfos, k \in FILTERS}
    \cup {AppendUniq("a1", "b2", i, k) : i \in {iA1, iB}, k \in FILTERS}
    \cup {FilterUrl("a1", "b1", iA2), FilterVar("a1", "b1", iB),
          FilterUrl("a1", "b1", MkFuzzableRequest("f1", "u1")),
          FilterVar("a1", "b1", MkFuzzableRequest("f1", "u1"))}

\* The thread of the sequential specifications.
Plugin == CHOOSE t \in Threads : \A u \in Threads : t <= u

\* The plugin makes its next call, one of the set calls, when the call before
\* is over.
NextCall(t, menu) ==
    /\ AtRest(t)
    /\ calls[t] < MaxCalls
    /\ \E c \in menu : th' = [th EXCEPT ![t] = Enter(c)]
    /\ calls' = [calls EXCEPT ![t] = @ + 1]
    /\ snap' = Rows
    /\ UNCHANGED <<store, held>>

UniqCall == NextCall(Plugin, UniqCalls)

NextUniq ==
    \/ UniqCall
    \/ SetupSteps(Plugin)
    \/ GetSteps(Plugin)
    \/ AppendSteps(Plugin)
    \/ AppendUniqSteps(Plugin)
    \/ FilterSteps(Plugin)

SpecUniq == Init /\ [][NextUniq]_vars

Range(f) == {f[i] : i \in DOMAIN f}

\* The duplicate rule of VAR as the claim states it: same token name, same
\* url, and both without data container or both with the same set of keys.
SameVar(x, y) ==
    /\ get_token_name(x) = get_token_name(y)
    /\ get_url(x) = get_url(y)
    /\ \/ ~HasDc(x) /\ ~HasDc(y)
       \/ HasDc(x) /\ HasDc(y) /\ Range(DcKeys(x)) = Range(DcKeys(y))

UniqReturned(kind) ==
    Returned(Plugin) /\ th[Plugin].op = "append_uniq" /\ th[Plugin].kind = kind

\* C5: append_uniq(a, b, info, 'VAR') returns False exactly when a record at
\* (a, b) has the token name, the url and (both none, or the same key set in
\* any order) the data container of info.
C5_VarDuplicateRule ==
    UniqReturned("VAR") =>
        LET r == th[Plugin]
            saved == At(snap, r.a, r.b)
        IN (r.ret = "False") <=> (\E i \in 1..Len(saved) : SameVar(saved[i], r.v))

\* C6: append_uniq(a, b, info, 'URL') returns False, storing nothing, exactly
\* when a record at (a, b) has the url of info, whatever its token and data
\* container and whatever is stored at other addresses; else it returns True
\* and stores info.
C6_UrlDuplicateRule ==
    UniqReturned("URL") =>
        LET r == th[Plugin]
            saved == At(snap, r.a, r.b)
            dup == \E i \in 1..Len(saved) : get_url(saved[i]) = get_url(r.v)
        IN /\ (r.ret = "False") <=> dup
           /\ (r.ret = "True") <=> ~dup
           /\ dup => Rows = snap
           /\ ~dup => At(Rows, r.a, r.b) = Append(saved, r.v)

\* An append_uniq under URL stored an Info whose url is stored at the other
\* address, after another was refused for an Info of the same url and another
\* token.
C6_Witness ==
    /\ UniqReturned("URL")
    /\ th[Plugin].ret = "True"
    /\ \E i \in 1..Len(snap) :
          /\ get_url(snap[i].val) = get_url(th[Plugin].v)
          /\ <<snap[i].a, snap[i].b>> # <<th[Plugin].a, th[Plugin].b>>
    /\ Len(Rows) = 2
    /\ calls[Plugin] = 3

\* C7: append_uniq returns True exactly when it inserted one record, the
\* candidate at (a, b), and fired one append notification; when it returns
\* False no record of any address changed and nothing was fired.
C7_AddedOrNoOp ==
    (Returned(Plugin) /\ th[Plugin].op = "append_uniq") =>
        LET r == th[Plugin] IN
        \/ /\ r.ret = "True"
           /\ Rows = Append(snap, Row(r.a, r.b, r.v, get_uniq_id(r.v)))
           /\ r.fired = <<Event("append", r.a, r.b, r.v, NoValue)>>
        \/ /\ r.ret = "False"
           /\ Rows = snap
           /\ r.fired = <<>>

\* Both outcomes have happened: a call returned False after two calls that
\* returned True.
C7_Witness ==
    /\ Returned(Plugin) /\ th[Plugin].op = "append_uniq"
    /\ th[Plugin].ret = "False"
    /\ Len(Rows) = 2

\* ========================================================================
\* One plugin thread grouping, appending and updating (SpecGroup)
\* ========================================================================
\* iA1 and iA2 fall into one group (g1), iE into another (g2).
GroupCalls ==
    {AppendUniqGroup(a[1], a[2], i, "InfoSet") :
        a \in {<<"a1", "b1">>, <<"a1", "b2">>}, i \in {iA1, iA2, iE}}
    \cup {AppendCall("a1", "b1", iA1), AppendCall("a1", "b2", iA1),
          UpdateCall(iA1, iB)}

GroupCall == NextCall(Plugin, GroupCalls)

NextGroup ==
    \/ GroupCall
    \/ SetupSteps(Plugin)
    \/ GetSteps(Plugin)
    \/ AppendSteps(Plugin)
    \/ UpdateSteps(Plugin)
    \/ AppendUniqGroupSteps(Plugin)

SpecGroup == Init /\ [][NextGroup]_vars

\* The rows at (a, b), address and uniq_id included.
RowsAt(rows, a, b) == SelectSeq(rows, LAMBDA x : x.a = a /\ x.b = b)

\* The rows holding something else than an InfoSet.
OtherRows(rows) == SelectSeq(rows, LAMBDA x : ~IsInstance(x.val, {"InfoSet"}))

\* C9: append_uniq_group(a, b, info, ctor).  With a matching InfoSet at
\* (a, b): returns (infoset, False), as many records at (a, b) as before, the
\* first matching InfoSet is stored with info added, one update notification
\* (the InfoSet before, the InfoSet after).  Without: returns (InfoSet of
\* [info], True), that one record is new at (a, b), one append notification.
\* The records that are no InfoSets are as before.
C9_MergeOrCreate ==
    (Returned(Plugin) /\ th[Plugin].op = "append_uniq_group") =>
        LET r == th[Plugin]
            saved == At(snap, r.a, r.b)
            hits == {i \in 1..Len(saved) :
                        saved[i].kind = "InfoSet" /\ Match(saved[i], r.v)}
            before == saved[Min(hits)]
            after == InfoSetAdd(before, r.v)
        IN /\ OtherRows(Rows) = OtherRows(snap)
           /\ IF hits # {}
                THEN /\ r.ret = "False" /\ r.rval = after
                     /\ r.v \in Members(r.rval)
                     /\ Len(At(Rows, r.a, r.b)) = Len(saved)
                     /\ At(Rows, r.a, r.b)[Min(hits)] = after
                     /\ r.fired = <<Event("update", "", "", before, after)>>
                ELSE /\ r.ret = "True" /\ r.rval = MkInfoSet(<<r.v>>)
                     /\ Rows = Append(snap, Row(r.a, r.b, r.rval, get_uniq_id(r.rval)))
                     /\ r.fired = <<Event("append", r.a, r.b, r.rval, NoValue)>>

\* An Info was merged into an InfoSet of an address that also holds a plain
\* Info record.
C9_Witness ==
    /\ Returned(Plugin) /\ th[Plugin].op = "append_uniq_group"
    /\ th[Plugin].ret = "False"
    /\ Len(th[Plugin].rval.infos) = 2
    /\ \E i \in 1..Len(Rows) :
          /\ Rows[i].a = th[Plugin].a /\ Rows[i].b = th[Plugin].b
          /\ Rows[i].val.kind = "Info"

\* C10: update(old, new) changes the table only when the identity of old
\* resolves to exactly one record.
C10_UpdateOnlyExactlyOne ==
    (Finished(Plugin) /\ th[Plugin].op = "update") =>
        (RowCount(snap, get_uniq_id(th[Plugin].old)) # 1 => Rows = snap)

\* ========================================================================
\* One plugin thread appending, updating and looking up (SpecUpdate)
\* ========================================================================
vH == MkVuln("v1", "u1", "t1", "HIGH")

sS == MkShell("s1")

setA == MkInfoSet(<<iA1>>)

setAB == MkInfoSet(<<iA1, iA2>>)

UpdateCalls ==
    {AppendCall("a1", "b1", v) : v \in {iA1, vH, setA, sS}}
    \cup {AppendCall("a1", "b2", iA1)}
    \cup {UpdateCall(iA1, iB), UpdateCall(iA1, iA1), UpdateCall(vH, iB),
          UpdateCall(setA, setAB), UpdateCall(sS, iB), UpdateCall(iB, iA2)}
    \cup {GetByUniqIdCall(u) : u \in {"x1", "x3"}}

\* What the next call remembers of the call that is over.
Summary(r) ==
    [op |-> r.op, a |-> r.a, b |-> r.b, kind |-> r.kind, old |-> r.old,
     new |-> r.new, pc |-> r.pc, got |-> r.got]

\* The plugin makes its next call, remembering the one before.
TrackedCall(t, menu) ==
    /\ AtRest(t)
    /\ calls[t] < MaxCalls
    /\ \E c \in menu :
          th' = [th EXCEPT ![t] = [Enter(c) EXCEPT !.prev = Summary(th[t])]]
    /\ calls' = [calls EXCEPT ![t] = @ + 1]
    /\ snap' = Rows
    /\ UNCHANGED <<store, held>>

UpdateCallStep == TrackedCall(Plugin, UpdateCalls)

GetByUniqIdSteps(t) == GetByUniqId(t)

NextUpdate ==
    \/ UpdateCallStep
    \/ SetupSteps(Plugin)
    \/ AppendSteps(Plugin)
    \/ UpdateSteps(Plugin)
    \/ GetByUniqIdSteps(Plugin)

SpecUpdate == Init /\ [][NextUpdate]_vars

\* C11: update(old, new) when no record has the identity of old fails with
\* DBException, leaves every row as it was (their number, their values, their
\* identities) and fires no notification.
C11_UpdateOfAbsentFails ==
    (Finished(Plugin) /\ th[Plugin].op = "update"
        /\ RowCount(snap, get_uniq_id(th[Plugin].old)) = 0) =>
        /\ th[Plugin].pc = "raised"
        /\ th[Plugin].exc = "DBException"
        /\ Rows = snap
        /\ th[Plugin].fired = <<>>

\* An update failed for an identity the update before had replaced, with
\* rows in the table.
C11_Witness ==
    /\ th[Plugin].op = "update" /\ th[Plugin].pc = "raised"
    /\ th[Plugin].exc = "DBException"
    /\ th[Plugin].prev.op = "update" /\ th[Plugin].prev.pc = "ret"
    /\ th[Plugin].prev.old = th[Plugin].old
    /\ Len(Rows) >= 1

\* The call before the running one was an update that succeeded.
AfterUpdate == th[Plugin].prev.op = "update" /\ th[Plugin].prev.pc = "ret"

\* C12: a successful update(old, new) gives every record of old's identity
\* the value and the identity of new, keeps its address, the other records
\* and the number of rows, and fires one update notification (old, new), the
\* write being done when it fires.  Right after it get_by_uniq_id(identity of
\* new) returns new and, the identities differing, get_by_uniq_id(identity of
\* old) returns None and another update(old, ...) fails with DBException.
C12_UpdateReplaces ==
    LET r == th[Plugin]
        old_id == get_uniq_id(r.old)
        new_id == get_uniq_id(r.new)
        replaced ==
            /\ Len(Rows) = Len(snap)
            /\ \A i \in 1..Len(snap) :
                  Rows[i] = IF snap[i].uid = old_id
                              THEN Row(snap[i].a, snap[i].b, r.new, new_id)
                              ELSE snap[i]
    IN /\ (r.op = "update" /\ r.pc = "update_notify") => (replaced /\ r.fired = <<>>)
       /\ (r.op = "update" /\ Returned(Plugin)) =>
             /\ replaced
             /\ r.fired = <<Event("update", "", "", r.old, r.new)>>
       /\ (AfterUpdate /\ r.op = "get_by_uniq_id" /\ Finished(Plugin)) =>
             /\ r.kind = get_uniq_id(r.prev.new) =>
                   (Returned(Plugin) /\ r.ret = "value" /\ r.rval = r.prev.new)
             /\ (r.kind = get_uniq_id(r.prev.old)
                    /\ get_uniq_id(r.prev.old) # get_uniq_id(r.prev.new)) =>
                   (Returned(Plugin) /\ r.ret = "None")
       /\ (AfterUpdate /\ r.op = "update" /\ Finished(Plugin)
              /\ r.old = r.prev.old
              /\ get_uniq_id(r.prev.old) # get_uniq_id(r.prev.new)) =>
             (r.pc = "raised" /\ r.exc = "DBException")

\* After a successful update of one record get_by_uniq_id has returned the
\* new value for the new identity.
C12_Witness ==
    /\ AfterUpdate
    /\ th[Plugin].op = "get_by_uniq_id" /\ Returned(Plugin)
    /\ th[Plugin].ret = "value"
    /\ th[Plugin].rval = th[Plugin].prev.new
    /\ th[Plugin].prev.old # th[Plugin].prev.new
    /\ Len(Rows) = 1

\* C20: the uniq_id stored with a finding append accepted (Info, Vuln,
\* InfoSet, Shell) is the finding's own get_uniq_id(), and an update(v, w)
\* right after append(a, b, v) finds the record and succeeds.
C20_StoredIdentityIsOwn ==
    /\ \A i \in 1..Len(Rows) :
          IsInstance(Rows[i].val, FindingClasses)
             => Rows[i].uid = get_uniq_id(Rows[i].val)
    /\ (Finished(Plugin) /\ th[Plugin].op = "update"
           /\ th[Plugin].prev.op = "append" /\ th[Plugin].prev.pc = "ret"
           /\ th[Plugin].prev.new = th[Plugin].old)
          => Returned(Plugin)

\* ========================================================================
\* One plugin thread making calls the store refuses (SpecReject)
\* ========================================================================
raw1 == MkRaw("r1")

url1 == MkURL("u1")

\* The calls that break the rules of the store: a value that is no finding
\* to append, append_uniq, append_uniq_group or update, a filter that is
\* none, a group class that is no InfoSet, a candidate that is no Info.
RefusedCalls ==
    {AppendCall("a1", "b1", raw1),
     AppendUniq("a1", "b1", raw1, "URL"), AppendUniq("a1", "b1", iA1, "XSS"),
     AppendUniqGroup("a1", "b1", raw1, "InfoSet"),
     AppendUniqGroup("a1", "b1", setA, "InfoSet"),
     AppendUniqGroup("a1", "b1", iA1, "Info"),
     UpdateCall(raw1, iA1), UpdateCall(iA1, raw1)}

\* Calls that fill the table, the known urls and the observers.
FillingCalls ==
    {AppendCall("a1", "b1", iA1), AppendIgnoringType("a1", "b1", raw1),
     UpdateCall(iA1, iB), AddUrl(url1), AddObserverCall("o1")}

\* What a call finds beside the rows.
Beside == <<urls, fuzzable_requests, observers>>

\* The plugin makes its next call; the call remembers what it found.
RejectCall ==
    /\ AtRest(Plugin)
    /\ calls[Plugin] < MaxCalls
    /\ \E c \in RefusedCalls \cup FillingCalls :
          th' = [th EXCEPT ![Plugin] = [Enter(c) EXCEPT !.before = Beside]]
    /\ calls' = [calls EXCEPT ![Plugin] = @ + 1]
    /\ snap' = Rows
    /\ UNCHANGED <<store, held>>

NextReject ==
    \/ RejectCall
    \/ SetupSteps(Plugin)
    \/ AppendSteps(Plugin)
    \/ UpdateSteps(Plugin)
    \/ AppendUniqCheck(Plugin)
    \/ AppendUniqGroupCheck(Plugin)
    \/ AddObserverSteps(Plugin)
    \/ AddUrlSteps(Plugin)
    \/ NotifyObserver(Plugin)

SpecReject == Init /\ [][NextReject]_vars

\* The kinds of finding.
Finding(v) == v.kind \in {"Info", "Vuln", "InfoSet", "Shell"}

\* The call breaks a rule of the store, and the exception that answers it.
Refused(r) ==
    \/ r.op = "append" /\ ~r.ign /\ ~Finding(r.new)
    \/ r.op = "append_uniq" /\ (~Finding(r.v) \/ r.kind \notin {"URL", "VAR"})
    \/ r.op = "append_uniq_group" /\ (r.v.kind \notin {"Info", "Vuln"} \/ r.kind # "InfoSet")
    \/ r.op = "update" /\ (~Finding(r.old) \/ ~Finding(r.new))

RefusedWith(r) == IF r.op = "append_uniq" THEN "ValueError" ELSE "TypeError"

\* C13: a call that breaks a rule of the store (append of a value that is no
\* finding and not flagged raw; append_uniq of one, or with a filter kind
\* other than URL and VAR; append_uniq_group with a candidate that is no Info
\* or a group class that is no InfoSet; update with an argument that is no
\* finding) raises, and never writes: at every step of the call and at its
\* end the rows, the known urls and requests and the observers are as the
\* call found them, and no notification is fired.
C13_RefusedWithoutEffect ==
    LET r == th[Plugin] IN
    (r.pc # "idle" /\ Refused(r)) =>
        /\ Rows = snap
        /\ Beside = r.before
        /\ r.fired = <<>>
        /\ Finished(Plugin) => (r.pc = "raised" /\ r.exc = RefusedWith(r))

\* A refused update is over, with a record, a known url and an observer in
\* the store.
C13_Witness ==
    /\ Finished(Plugin) /\ Refused(th[Plugin])
    /\ th[Plugin].op = "update"
    /\ Len(Rows) = 1 /\ urls # {}

\* ========================================================================
\* One plugin thread writing and reading values (SpecRaw)
\* ========================================================================
raw2 == MkRaw("r2")

RawCalls ==
    {RawWrite("a1", "b1", v) : v \in {raw1, raw2, iA1, vH, setA, sS}}
    \cup {AppendCall("a1", "b1", iA1), AppendCall("a1", "b2", iB),
          AppendCall("a2", "b1", iA2), AppendIgnoringType("a1", "b1", raw1)}
    \cup {RawRead("a1", "b1"), GetOne("a1", "b1")}

RawGetCalls ==
    {GetCall(a, b, chk) : a \in {"a1", "a2"}, b \in {"b1", "None"}, chk \in BOOLEAN}

RawCall == TrackedCall(Plugin, RawCalls)

\* The plugin calls get; get writes nothing, and any number is made.
RawGetCall ==
    /\ AtRest(Plugin)
    /\ \E c \in RawGetCalls :
          th' = [th EXCEPT ![Plugin] = [Enter(c) EXCEPT !.prev = Summary(th[Plugin])]]
    /\ snap' = Rows
    /\ UNCHANGED <<store, held, calls>>

NextRaw ==
    \/ RawCall
    \/ RawGetCall
    \/ SetupSteps(Plugin)
    \/ GetSteps(Plugin)
    \/ AppendSteps(Plugin)
    \/ ClearSteps(Plugin)
    \/ RawWriteSteps(Plugin)
    \/ ReadOneSteps(Plugin)

SpecRaw == Init /\ [][NextRaw]_vars

\* C14: raw_write of a finding (Info, Vuln, InfoSet, Shell) raises TypeError
\* and does nothing: the rows, those of its address too, are as before and
\* nothing is fired.
C14_RawWriteRefusesFindings ==
    LET r == th[Plugin] IN
    (r.op = "raw_write" /\ Finding(r.v)) =>
        /\ Rows = snap
        /\ r.fired = <<>>
        /\ Finished(Plugin) => (r.pc = "raised" /\ r.exc = "TypeError")

\* The rows of the other addresses.
RowsElsewhere(rows, a, b) == SelectSeq(rows, LAMBDA x : ~(x.a = a /\ x.b = b))

\* C15: when raw_write(a, b, v) has returned, (a, b) holds one record, v,
\* whatever it held before, and the other addresses hold what they held; when
\* append(a, b, v) has returned, the table is the table before with one row
\* more, v at (a, b), also when v was stored there already.
C15_ReplaceVersusAccumulate ==
    LET r == th[Plugin] IN
    /\ (Returned(Plugin) /\ r.op = "raw_write") =>
          /\ AllValues(RowsAt(Rows, r.a, r.b)) = <<r.v>>
          /\ RowsElsewhere(Rows, r.a, r.b) = RowsElsewhere(snap, r.a, r.b)
    /\ (Returned(Plugin) /\ r.op = "append") =>
          /\ Len(Rows) = Len(snap) + 1
          /\ SubSeq(Rows, 1, Len(snap)) = snap
          /\ Rows[Len(Rows)].a = r.a /\ Rows[Len(Rows)].b = r.b
          /\ Rows[Len(Rows)].val = r.new

\* A raw_write has replaced the value the raw_write before it had stored.
C15_Witness ==
    /\ Returned(Plugin) /\ th[Plugin].op = "raw_write"
    /\ th[Plugin].prev.op = "raw_write" /\ th[Plugin].prev.pc = "ret"
    /\ th[Plugin].v = raw2
    /\ Len(RowsAt(snap, "a1", "b1")) = 1
    /\ Len(Rows) = 1

\* The running call is raw_read or get_one and is over.
ReadOneOver == Finished(Plugin) /\ th[Plugin].op \in {"raw_read", "get_one"}

\* C16 as stated: raw_read(a, b) and get_one(a, b) return the value when one
\* record is at (a, b), [] when none is, raise RuntimeError when more than
\* one is; get_one raises when the one value is no finding; the rows are as
\* before.
C16_SingleResultOrRuntimeError ==
    ReadOneOver =>
        LET r == th[Plugin]
            found == AllValues(RowsAt(snap, r.a, r.b))
        IN /\ Rows = snap
           /\ Len(found) = 0 => (Returned(Plugin) /\ r.ret = "[]")
           /\ Len(found) = 1 =>
                 IF r.op = "get_one" /\ ~Finding(found[1])
                   THEN r.pc = "raised"
                   ELSE Returned(Plugin) /\ r.ret = "value" /\ r.rval = found[1]
           /\ Len(found) > 1 => (r.pc = "raised" /\ r.exc = "RuntimeError")

\* C16: as above, but get_one raises TypeError whenever a record at (a, b),
\* the only one or one of several, holds a value that is no finding, and
\* RuntimeError when there are several and all are findings.
C16_SingleResult ==
    ReadOneOver =>
        LET r == th[Plugin]
            found == AllValues(RowsAt(snap, r.a, r.b))
            mistyped == r.op = "get_one" /\ \E i \in 1..Len(found) : ~Finding(found[i])
        IN /\ Rows = snap
           /\ mistyped => (r.pc = "raised" /\ r.exc = "TypeError")
           /\ (~mistyped /\ Len(found) = 0) => (Returned(Plugin) /\ r.ret = "[]")
           /\ (~mistyped /\ Len(found) = 1) =>
                 (Returned(Plugin) /\ r.ret = "value" /\ r.rval = found[1])
           /\ (~mistyped /\ Len(found) > 1) =>
                 (r.pc = "raised" /\ r.exc = "RuntimeError")

\* get_one has raised TypeError at an address of two records, a raw value
\* and a finding.
C16_Witness ==
    /\ ReadOneOver /\ th[Plugin].op = "get_one"
    /\ th[Plugin].exc = "TypeError"
    /\ Len(RowsAt(Rows, "a1", "b1")) = 2

\* The sequences s and t hold the same values, each as often.
SameValues(s, t) ==
    /\ Len(s) = Len(t)
    /\ \A i \in 1..Len(s) :
          Cardinality({j \in 1..Len(s) : s[j] = s[i]})
            = Cardinality({j \in 1..Len(t) : t[j] = s[i]})

\* C17: get(a, b) returns the values of the rows at (a, b) in the order of
\* their insertion, get(a, None) those of the rows of location_a a, each
\* once, in some order; with check_types it raises TypeError, returning
\* nothing, when one of them is no finding, without it returns them all; the
\* store is as before.
C17_GetSelects ==
    (Finished(Plugin) /\ th[Plugin].op = "get") =>
        LET r == th[Plugin]
            found == AllValues(SelectSeq(snap, LAMBDA x :
                                  x.a = r.a /\ (r.b # "None" => x.b = r.b)))
        IN /\ Rows = snap
           /\ IF r.chk /\ \E i \in 1..Len(found) : ~Finding(found[i])
                THEN r.pc = "raised" /\ r.exc = "TypeError" /\ r.got = <<>>
                ELSE /\ Returned(Plugin)
                     /\ r.b # "None" => r.got = found
                     /\ r.b = "None" => SameValues(r.got, found)

\* The table holds a finding at (a1, b2), a raw value at (a1, b1) and a
\* finding at (a2, b1), stored in this order.  get(a1, None) without
\* check_types has returned the two values under a1, the raw value of b1
\* first, and not the one of a2; the get(a1, None) with check_types after it
\* has raised TypeError.
C17_Witness ==
    LET r == th[Plugin] IN
    /\ r.op = "get" /\ r.a = "a1" /\ r.b = "None" /\ r.chk
    /\ r.pc = "raised" /\ r.exc = "TypeError" /\ r.got = <<>>
    /\ r.prev.op = "get" /\ r.prev.a = "a1" /\ r.prev.b = "None"
    /\ r.prev.pc = "ret" /\ r.prev.got = <<raw1, iB>>
    /\ AllValues(Rows) = <<iB, raw1, iA2>>
    /\ Rows[3].a = "a2" /\ Rows[3].b = "b1"

\* ========================================================================
\* One plugin thread storing values and asking for all of a kind (SpecQuery)
\* ========================================================================
vL == MkVuln("v2", "u2", "t1", "LOW")

\* An Info of a severity that is not the default.
iM == WithSeverity(iB, "MEDIUM")

setV == MkInfoSet(<<vH>>)

StoringCalls ==
    {AppendCall("a1", "b1", v) : v \in {iA1, iM, vL, setV, sS}}
    \cup {AppendCall("a2", "b2", vH), AppendIgnoringType("a1", "b1", raw1)}

QueryCalls ==
    {GetAllVulnsCall, GetAllInfosCall, GetAllFindingsCall, GetAllShellsCall,
     DumpCall}

StoringCall == TrackedCall(Plugin, StoringCalls)

\* The plugin asks; the queries write nothing, and any number is made.
QueryCall ==
    /\ AtRest(Plugin)
    /\ \E c \in QueryCalls :
          th' = [th EXCEPT ![Plugin] = [Enter(c) EXCEPT !.prev = Summary(th[Plugin])]]
    /\ snap' = Rows
    /\ UNCHANGED <<store, held, calls>>

NextQuery ==
    \/ StoringCall
    \/ QueryCall
    \/ SetupSteps(Plugin)
    \/ AppendSteps(Plugin)
    \/ QuerySteps(Plugin)
    \/ ScanSteps(Plugin)

SpecQuery == Init /\ [][NextQuery]_vars

\* The severity of a stored value: that of an Info or Vuln, that of the first
\* member of an InfoSet, none for anything else.
SeverityOf(v) ==
    CASE v.kind \in {"Info", "Vuln"} -> v.sev
      [] v.kind = "InfoSet" /\ v.infos # <<>> -> v.infos[1].sev
      [] OTHER -> "none"

\* The call before was the query op, it returned, and nothing was written
\* since.
Before(op) == th[Plugin].prev.op = op /\ th[Plugin].prev.pc = "ret"

\* C18: get_all_vulns() returns the stored values of severity LOW, MEDIUM or
\* HIGH, get_all_infos() those of severity INFORMATION; asked one after the
\* other on the same store the two answers share no value and together are
\* the stored values that have a severity; a Shell or a raw value is in
\* neither.
C18_SeverityPartition ==
    LET r == th[Plugin]
        stored == AllValues(snap)
        with_severity == {v \in Range(stored) : SeverityOf(v) # "none"}
    IN /\ (Returned(Plugin) /\ r.op = "get_all_vulns") =>
             r.got = SelectSeq(stored, LAMBDA v : SeverityOf(v) \in {"LOW", "MEDIUM", "HIGH"})
       /\ (Returned(Plugin) /\ r.op = "get_all_infos") =>
             r.got = SelectSeq(stored, LAMBDA v : SeverityOf(v) = "INFORMATION")
       /\ (Returned(Plugin) /\ \/ r.op = "get_all_infos" /\ Before("get_all_vulns")
                               \/ r.op = "get_all_vulns" /\ Before("get_all_infos")) =>
             /\ Range(r.got) \cap Range(r.prev.got) = {}
             /\ Range(r.got) \cup Range(r.prev.got) = with_severity
             /\ \A v \in Range(r.got) \cup Range(r.prev.got) :
                   v.kind \notin {"Shell", "Raw"}

\* get_all_infos() after get_all_vulns() on a store of a Vuln, an Info and a
\* Shell or raw value: each returned one value.
C18_Witness ==
    /\ Returned(Plugin) /\ th[Plugin].op = "get_all_infos"
    /\ Before("get_all_vulns")
    /\ Len(th[Plugin].got) = 1 /\ Len(th[Plugin].prev.got) = 1
    /\ Len(Rows) = 3

\* C19: get_all_findings() returns the stored values that are an Info, an
\* InfoSet or a Vuln, of any severity and address, and no other; every value
\* get_all_vulns() or get_all_infos() returned just before is among them.
C19_AllFindings ==
    LET r == th[Plugin] IN
    (Returned(Plugin) /\ r.op = "get_all_findings") =>
        /\ r.got = SelectSeq(AllValues(snap),
                             LAMBDA v : v.kind \in {"Info", "InfoSet", "Vuln"})
        /\ Rows = snap
        /\ (Before("get_all_vulns") \/ Before("get_all_infos")) =>
              Range(r.prev.got) \subseteq Range(r.got)

\* get_all_findings() after get_all_vulns() on a store of an InfoSet, a Vuln
\* at another address and a Shell: it returned the first two.
C19_Witness ==
    /\ Returned(Plugin) /\ th[Plugin].op = "get_all_findings"
    /\ Before("get_all_vulns") /\ Len(th[Plugin].prev.got) = 2
    /\ Len(th[Plugin].got) = 2 /\ Len(Rows) = 3
    /\ \E i \in 1..3 : Rows[i].val.kind = "Shell"
    /\ \E i \in 1..2 : th[Plugin].got[i].kind = "InfoSet"

\* ========================================================================
\* One plugin thread through a session: storing, registering urls, requests
\* and observers, clearing and cleaning up (SpecSession)
\* ========================================================================
fr1 == MkFuzzableRequest("f1", "u1")

\* Another request to the url of fr1.
fr2 == MkFuzzableRequest("f2", "u1")

SessionCalls ==
    {AppendCall("a1", "b1", iA1), AppendCall("a1", "b2", iB),
     AddUrl(url1), AddUrl(raw1),
     AddFuzzableRequest(fr1), AddFuzzableRequest(fr2), AddFuzzableRequest(raw1),
     AddObserverCall("o1"), ClearCall("a1", "b1"), CleanupCall}

\* The plugin makes its next call; the call remembers the call before and
\* what it found beside the rows.
SessionCall ==
    /\ AtRest(Plugin)
    /\ calls[Plugin] < MaxCalls
    /\ \E c \in SessionCalls :
          th' = [th EXCEPT ![Plugin] =
                    [Enter(c) EXCEPT !.prev = Summary(th[Plugin]), !.before = Beside]]
    /\ calls' = [calls EXCEPT ![Plugin] = @ + 1]
    /\ snap' = Rows
    /\ UNCHANGED <<store, held>>

NextSession ==
    \/ SessionCall
    \/ SetupSteps(Plugin)
    \/ AppendSteps(Plugin)
    \/ NotifyObserver(Plugin)
    \/ ClearSteps(Plugin)
    \/ AddObserverSteps(Plugin)
    \/ AddUrlSteps(Plugin)
    \/ AddFuzzableRequestSteps(Plugin)
    \/ CleanupSteps(Plugin)

SpecSession == Init /\ [][NextSession]_vars

\* The call is one the store takes: its argument is of the class asked for.
WellTyped(r) ==
    /\ r.op = "add_url" => r.v.kind = "URL"
    /\ r.op = "add_fuzzable_request" => r.old.kind = "FuzzableRequest"

\* C23: when cleanup() has returned the table has no row, the two Coverage
\* Sets and the observer registry are empty, and the table is there under the
\* name it had, with its indices, the store initialized.  The call after it,
\* if well typed, returns without setup() running again (no other name is
\* drawn), and its notification calls no observer.
C23_CleanupEmptiesInPlace ==
    LET r == th[Plugin] IN
    /\ (Returned(Plugin) /\ r.op = "cleanup") =>
          /\ Rows = <<>> /\ urls = {} /\ fuzzable_requests = {}
          /\ DOMAIN observers = {}
          /\ initialized /\ SetupDone /\ names_drawn = 1
    /\ (Before("cleanup") /\ r.pc # "idle") =>
          /\ SetupDone /\ names_drawn = 1
          /\ r.invoked = <<>>
          /\ (Finished(Plugin) /\ WellTyped(r)) => Returned(Plugin)

\* An append has returned, its event fired, after a cleanup of a store with
\* an observer.
C23_Witness ==
    /\ Before("cleanup")
    /\ Returned(Plugin) /\ th[Plugin].op = "append"
    /\ Len(th[Plugin].fired) = 1
    /\ observer_id = 1
    /\ Len(Rows) = 1

\* C24: add_url(url) of a value that is no URL raises TypeError, the known
\* urls as before and nobody notified; of a URL it returns True when the URL
\* was not known and False when it was, and the known urls are those before
\* and the URL.
C24_AddUrl ==
    LET r == th[Plugin] IN
    (Finished(Plugin) /\ r.op = "add_url") =>
        IF r.v.kind # "URL"
          THEN /\ r.pc = "raised" /\ r.exc = "TypeError"
               /\ urls = r.before[1]
               /\ r.fired = <<>> /\ r.invoked = <<>>
          ELSE /\ Returned(Plugin)
               /\ r.ret = (IF r.v \in r.before[1] THEN "False" ELSE "True")
               /\ urls = r.before[1] \cup {r.v}

\* add_url of a known URL has returned False and left the set as it was.
C24_Witness ==
    /\ Returned(Plugin) /\ th[Plugin].op = "add_url"
    /\ th[Plugin].ret = "False"
    /\ urls = {url1} /\ th[Plugin].before[1] = {url1}

\* C25: add_fuzzable_request(req) of a value that is no request raises
\* TypeError with both sets as before and nothing fired.  Of a request: the
\* known requests change only once the url of req is known and the add_url
\* notification is fired; at the end the url and req are known, and it
\* returns True when req was not known and False when it was, whether or not
\* the url was.
C25_AddFuzzableRequest ==
    LET r == th[Plugin]
        url == MkURL(r.old.url)
    IN (r.op = "add_fuzzable_request") =>
        /\ fuzzable_requests # r.before[2] =>
              /\ url \in urls
              /\ r.fired = <<Event("add_url", "", "", url, NoValue)>>
        /\ Finished(Plugin) =>
              IF r.old.kind # "FuzzableRequest"
                THEN /\ r.pc = "raised" /\ r.exc = "TypeError"
                     /\ Beside = r.before /\ r.fired = <<>>
                ELSE /\ Returned(Plugin)
                     /\ urls = r.before[1] \cup {url}
                     /\ fuzzable_requests = r.before[2] \cup {r.old}
                     /\ r.fired = <<Event("add_url", "", "", url, NoValue)>>
                     /\ r.ret = (IF r.old \in r.before[2] THEN "False" ELSE "True")

\* A request to a known url was new: add_fuzzable_request has returned True
\* with the known urls as before.
C25_Witness ==
    /\ Returned(Plugin) /\ th[Plugin].op = "add_fuzzable_request"
    /\ th[Plugin].ret = "True"
    /\ urls = th[Plugin].before[1]
    /\ Cardinality(fuzzable_requests) = 2

\* C26: clear(a, b) deletes the rows of (a, b) and no other, those of the
\* same location_a and another location_b staying; the Coverage Sets and the
\* observers are as before and nothing is fired.
C26_ClearFrame ==
    LET r == th[Plugin] IN
    (Finished(Plugin) /\ r.op = "clear") =>
        /\ Returned(Plugin)
        /\ Rows = RowsElsewhere(snap, r.a, r.b)
        /\ Beside = r.before
        /\ r.fired = <<>> /\ r.invoked = <<>>

\* clear has deleted the row of (a1, b1) and left the row of (a1, b2).
C26_Witness ==
    /\ Returned(Plugin) /\ th[Plugin].op = "clear"
    /\ Len(snap) = 2 /\ Len(Rows) = 1
    /\ Rows[1].a = "a1" /\ Rows[1].b = "b2"

\* C27: when append_uniq_group(a, b, info, ...) merges (returns False), one
\* row of (a, b) is changed and the rows of every other address are as
\* before, also one that carries the uniq_id of the matched InfoSet.
C27_MergeFrame ==
    LET r == th[Plugin]
        here == RowsAt(Rows, r.a, r.b)
        was == RowsAt(snap, r.a, r.b)
    IN (Returned(Plugin) /\ r.op = "append_uniq_group" /\ r.ret = "False") =>
        /\ RowsElsewhere(Rows, r.a, r.b) = RowsElsewhere(snap, r.a, r.b)
        /\ Len(here) = Len(was)
        /\ Cardinality({i \in 1..Len(was) : here[i] # was[i]}) = 1

\* ========================================================================
\* Threads registering observers, adding urls and cleaning up (SpecObservers)
\* ========================================================================
\* A thread makes a call of menu, if it has made fewer than limit; the call
\* remembers the call before and is added to the calls the thread has made.
ThreadCall(t, menu, limit) ==
    /\ AtRest(t)
    /\ calls[t] < limit
    /\ \E c \in menu :
          th' = [th EXCEPT ![t] =
                    [Enter(c) EXCEPT !.prev = Summary(th[t]),
                                     !.ops = Append(th[t].ops, c.op)]]
    /\ calls' = [calls EXCEPT ![t] = @ + 1]
    /\ UNCHANGED <<store, held, snap>>

\* The plugin thread registers an observer and adds a url, in any order;
\* every other thread makes one call.
ObserverCall(t) ==
    IF t = Plugin
      THEN ThreadCall(t, {AddObserverCall("o1"), AddUrl(url1)}, MaxCalls)
      ELSE ThreadCall(t, {AddObserverCall("o2"), AddUrl(url1), CleanupCall}, 1)

NextObservers ==
    \E t \in Threads :
        \/ ObserverCall(t)
        \/ SetupSteps(t)
        \/ AddObserverSteps(t)
        \/ AddUrlSteps(t)
        \/ NotifyObserver(t)
        \/ CleanupSteps(t)

SpecObservers == Init /\ [][NextObservers]_vars

\* The handlers called so far, as (handle, observer) pairs.
Called(r) == [i \in 1..Len(r.invoked) |-> <<r.invoked[i][1], r.invoked[i][2]>>]

\* The list holds every (handle, observer) pair of the registry, each once,
\* and nothing else.
ListsOnce(list, registry) ==
    /\ Len(list) = Cardinality(DOMAIN registry)
    /\ {list[i] : i \in 1..Len(list)} = {<<k, registry[k]>> : k \in DOMAIN registry}

\* C21: a call that fired an event (an append, an update, an add_url with a
\* URL) and is over has called the handler of that event once on every
\* observer that was registered when it fired, and has returned; a call that
\* failed or was refused has called no observer.
C21_NotifiesAllOrNobody ==
    \A t \in Threads :
        LET r == th[t] IN
        /\ (Returned(t) /\ r.fired # <<>>) =>
              /\ ListsOnce(Called(r), r.at_start)
              /\ \A i \in 1..Len(r.invoked) : r.invoked[i][3] = r.fired[1]
        /\ r.pc = "raised" => r.invoked = <<>>

\* C22: a notification calls the observers that were registered when it
\* started, each once, whatever is registered or cleared while it runs: what it has called and what it has still to call
\* are together the registry of its start.  (An observer registered during
\* it is in the list of the next notification.)
C22_IteratesSnapshot ==
    \A t \in Threads :
        LET r == th[t] IN
        r.fired # <<>> =>
            /\ ListsOnce(Called(r) \o r.pending, r.at_start)
            /\ (AtRest(t) \/ r.pc = "add_url_add") => r.pending = <<>>

\* The registry has changed while a notification has an observer still to
\* call.
C22_Witness ==
    \E t \in Threads :
        /\ th[t].pc = "notify_loop" /\ Len(th[t].pending) = 1
        /\ DOMAIN observers # DOMAIN th[t].at_start

\* How often op is among the calls of a thread.
TimesCalled(r, op) == Cardinality({i \in 1..Len(r.ops) : r.ops[i] = op})

RECURSIVE SumOver(_, _)
SumOver(S, f) ==
    IF S = {} THEN 0
    ELSE LET x == CHOOSE y \in S : TRUE IN f[x] + SumOver(S \ {x}, f)

\* C29: when the add_observer calls of all threads are over, and nobody has
\* called cleanup, the registry holds as many observers as add_observer was
\* called, under as many handles.
C29_DistinctHandles ==
    ((\A t \in Threads : AtRest(t) /\ TimesCalled(th[t], "cleanup") = 0)) =>
        Cardinality(DOMAIN observers) =
            SumOver(Threads, [t \in Threads |-> TimesCalled(th[t], "add_observer")])

\* ========================================================================
\* Threads writing one raw address (SpecRawRace)
\* ========================================================================
\* Every thread writes its value to (a1, b1), or reads the address.
RawRaceCall(t) ==
    ThreadCall(t, {RawWrite("a1", "b1", IF t = Plugin THEN raw1 ELSE raw2),
                   RawRead("a1", "b1")}, MaxCalls)

NextRawRace ==
    \E t \in Threads :
        \/ RawRaceCall(t)
        \/ SetupSteps(t)
        \/ GetSteps(t)
        \/ AppendSteps(t)
        \/ ClearSteps(t)
        \/ RawWriteSteps(t)
        \/ ReadOneSteps(t)

SpecRawRace == Init /\ [][NextRawRace]_vars

\* C28: with raw_write calls of several threads on one address, once the
\* raw_write of every thread has returned the address holds exactly one
\* record, and no raw_read of it raises RuntimeError.
C28_RawWriteRaceLeavesOne ==
    /\ (\A t \in Threads : Returned(t) /\ th[t].op = "raw_write")
          => Len(RowsAt(Rows, "a1", "b1")) = 1
    /\ \A t \in Threads :
          (th[t].op = "raw_read" /\ th[t].pc = "raised") => th[t].exc # "RuntimeError"

\* ========================================================================
\* Threads filling and emptying the coverage sets (SpecCoverage)
\* ========================================================================
CoverageCall(t) ==
    ThreadCall(t, {AddUrl(url1), AddFuzzableRequest(fr1), CleanupCall}, MaxCalls)

NextCoverage ==
    \E t \in Threads :
        \/ CoverageCall(t)
        \/ SetupSteps(t)
        \/ AddUrlSteps(t)
        \/ AddFuzzableRequestSteps(t)
        \/ CleanupSteps(t)

SpecCoverage == Init /\ [][NextCoverage]_vars

\* A call of op by thread t has started and is not over.
InFlight(t, op) == th[t].op = op /\ ~AtRest(t)

\* C30: whenever no add_fuzzable_request call is in flight (and no cleanup
\* call is half way either), every request of the known-request set has its
\* URL in the known-URL set, whatever the interleaving of add_url,
\* add_fuzzable_request and cleanup calls of the threads.
C30_CoverageConsistency ==
    (\A t \in Threads : ~InFlight(t, "add_fuzzable_request")
                        /\ ~InFlight(t, "cleanup"))
        => \A r \in fuzzable_requests : MkURL(get_url(r)) \in urls

\* ========================================================================
\* A session that ends with remove (SpecRemove)
\* ========================================================================
RemoveCalls ==
    {RemoveCall, Setup, AppendCall("a1", "b1", iA1), AddUrl(url1),
     AddFuzzableRequest(fr1), AddObserverCall("o1"), GetObserverIdCall,
     GetAllKnownUrlsCall, GetAllKnownFuzzableRequestsCall}

NextRemove ==
    \/ ThreadCall(Plugin, RemoveCalls, MaxCalls)
    \/ SetupSteps(Plugin)
    \/ AppendSteps(Plugin)
    \/ AddObserverSteps(Plugin)
    \/ AddUrlSteps(Plugin)
    \/ AddFuzzableRequestSteps(Plugin)
    \/ NotifyObserver(Plugin)
    \/ KnownSteps(Plugin)
    \/ RemoveSteps(Plugin)

SpecRemove == Init /\ [][NextRemove]_vars

\* The steps of setup() after its "only initialize once" test.
SetupBodyPcs ==
    {"setup_urls", "setup_freqs", "setup_db", "setup_name", "setup_create",
     "setup_index_a", "setup_index_u"}

\* A remove() of the thread is over.
Removed(r) ==
    \E i \in 1..Len(r.ops) :
        r.ops[i] = "remove" /\ (i < Len(r.ops) \/ r.pc \in {"ret", "raised"})

\* C32: remove() drops the table and empties both coverage sets and the
\* registry, and leaves the store initialized: once a remove() is over no
\* call runs the body of setup() again and no table is created; a remove()
\* that is the first call of the store runs setup() first, so that the table
\* exists when it is dropped.
C32_RemoveTearsDownForGood ==
    LET r == th[Plugin] IN
    /\ (r.op = "remove" /\ r.pc = "ret" /\ TimesCalled(r, "remove") = 1) =>
          /\ table_name \notin DOMAIN db
          /\ urls = {} /\ fuzzable_requests = {} /\ observers = <<>>
    /\ Removed(r) =>
          /\ initialized
          /\ DOMAIN db = {}
          /\ names_drawn = 1
          /\ r.pc \notin SetupBodyPcs
    /\ (r.ops = <<"remove">> /\ r.pc = "remove_body") =>
          /\ SetupDone
          /\ names_drawn = 1

\* Requests and a finding were stored, remove() ran, and the append after it
\* failed at the table that is gone, with the sets still empty.
C32_Witness ==
    LET r == th[Plugin] IN
    /\ r.ops = <<"add_fuzzable_request", "remove", "append">>
    /\ r.pc = "raised" /\ r.exc = "DBError"
    /\ initialized /\ DOMAIN db = {}
    /\ urls = {} /\ fuzzable_requests = {}

\* ========================================================================
\* Handlers that call the store from inside the lock (SpecLock)
\* ========================================================================
\* The call the handler of an observer makes on the store.
HandlerCall(observer) ==
    CASE observer = "hUniq"  -> AppendUniq("a1", "b2", iB, "URL")
      [] observer = "hGroup" -> AppendUniqGroup("a1", "b3", iA1, "InfoSet")
      [] OTHER               -> Setup

\* functor(*args, **kwargs) with a handler that raises or calls the store, on
\* the thread of the notification and inside the lock scope it runs in: the
\* notification waits for the call of the handler to return.
NotifyHandler(t) ==
    /\ th[t].pc = "notify_loop"
    /\ LET r == th[t]
           todo == StillToCall(r.pending, observers)
       IN /\ todo # <<>>
          /\ Reacts(Head(todo)[2], r.event.m)
          /\ LET observer == Head(todo)[2]
                 resume == [r EXCEPT !.pending = Tail(todo),
                                     !.invoked = Append(@, <<Head(todo)[1], observer,
                                                             r.event>>)]
                 c == HandlerCall(observer)
             IN IF observer = "hRaise"
                  THEN /\ th' = [th EXCEPT ![t] = Raised(resume, "HandlerError")]
                       /\ ReleaseAll(t)
                  ELSE /\ th' = [th EXCEPT ![t] =
                             [resume EXCEPT !.pc = Entry(c.op),
                                            !.stack = <<"handler_return">> \o @,
                                            !.a = c.a, !.b = c.b, !.v = c.v,
                                            !.kind = c.kind, !.old = c.old,
                                            !.new = c.new, !.chk = c.chk,
                                            !.ign = c.ign,
                                            !.saved = <<resume>>]]
                       /\ UNCHANGED held
    /\ UNCHANGED <<store, calls, snap>>

\* The call of the handler has returned: the notification goes on where it
\* was, with the method, the args and the locals it had; what the call of the
\* handler fired and called stays on the thread's record.
HandlerReturn(t) ==
    /\ th[t].pc = "handler_return"
    /\ th' = [th EXCEPT ![t] =
                [Head(th[t].saved) EXCEPT !.pc = "notify_loop",
                                          !.fired = th[t].fired,
                                          !.invoked = th[t].invoked]]
    /\ UNCHANGED <<store, held, calls, snap>>

\* The plugin thread registers an observer with a handler, then perhaps one
\* whose handler raises, and stores findings with append_uniq and
\* append_uniq_group; every other thread makes one call.
LockCall(t) ==
    IF t = Plugin
      THEN IF calls[t] = 0
             THEN ThreadCall(t, {AddObserverCall(h) : h \in Handlers}, MaxCalls)
             ELSE ThreadCall(t, {AppendUniq("a1", "b1", iA1, "URL"),
                                 AppendUniqGroup("a1", "b1", iA2, "InfoSet")}
                                \cup (IF calls[t] = 1
                                        THEN {AddObserverCall("hRaise")}
                                        ELSE {}),
                             MaxCalls)
      ELSE ThreadCall(t, {AppendUniq("a1", "b1", iA1, "VAR"), RemoveCall}, 1)

\* The steps of the calls thread t has made.
LockRun(t) ==
    \/ SetupSteps(t)
    \/ GetSteps(t)
    \/ AppendSteps(t)
    \/ UpdateSteps(t)
    \/ AppendUniqSteps(t)
    \/ AppendUniqGroupSteps(t)
    \/ AddObserverSteps(t)
    \/ NotifyObserver(t)
    \/ NotifyHandler(t)
    \/ HandlerReturn(t)
    \/ RemoveSteps(t)

NextLock == \E t \in Threads : LockCall(t) \/ LockRun(t)

\* A thread that can take a step of its call takes it in the end: the
\* scheduler runs every thread that is not waiting for the lock, and a thread
\* waiting for the lock gets it once it stays free.
SpecLock ==
    Init /\ [][NextLock]_vars /\ \A t \in Threads : WF_vars(LockRun(t))

\* C31: the lock is never left held by a call that is over, whether it
\* returned or raised (in the filter, in the write or in a handler), and
\* every call comes to its end, so that in the end all the calls the threads
\* make are over: no thread stays at a lock statement, neither one that
\* waits for another thread nor one that already holds the lock because a
\* handler called append_uniq, append_uniq_group or setup from inside the
\* lock scope.
C31_LockReentrantAndReleased ==
    /\ [](\A t \in Threads : AtRest(t) => held[t] = 0)
    /\ <>[](\A t \in Threads : AtRest(t))

\* A handler of thread t has called append_uniq from inside the lock scope
\* and was let in, holding the lock twice, while another thread waits at the
\* lock statement of its own call.
C31_Witness ==
    \E t \in Threads : \E u \in Threads \ {t} :
        /\ th[t].saved # <<>>
        /\ held[t] >= 2
        /\ th[t].pc = "au_filter"
        /\ th[u].pc \in {"au_lock", "setup_lock"}

====
